---------------------------- MODULE Spec2Model ----------------------------
(***************************************************************************)
(* A model of the execution engine of gjson_template (src/exec.go): the    *)
(* scoped tree walker, the pipeline and command evaluator, the control     *)
(* flow of if / with / range / template / break / continue, and the way    *)
(* panics (execution faults, write faults, loop signals, runtime errors)   *)
(* travel up the Go call stack to errRecover.                              *)
(*                                                                         *)
(* Texts.  Every text the code inspects (a node's Text, a gjson path, a    *)
(* value's Raw and Str, the bytes written to the sink) is a sequence of    *)
(* atoms.  An atom is one punctuation character standing for itself        *)
(* ( " . , : [ ] { } and the blank; the backquote is written Backquote)    *)
(* or one maximal run of other characters ("Name", "42").  Two texts are   *)
(* equal iff their atom sequences are equal, a prefix test is a test of    *)
(* the first atom, and concatenation is \o.                                *)
(***************************************************************************)
EXTENDS Integers, Sequences, FiniteSets, TLC

\* The atom of the backquote character.
Backquote == "<backquote>"

(***************************************************************************)
(* Bounds of the model.                                                    *)
(***************************************************************************)
\* The stand-in for the recursion ceiling (1000 or 100000 in the code).
DepthCeiling == 2
\* The sink may fail at its first, second, ... MaxFailAt-th Write call.
MaxFailAt == 3
\* Numerals the model can format and parse are 0 .. MaxNum.
MaxNum == 50

(***************************************************************************)
(* gjson.Result: Type, Raw, Str, Num, and for the navigation the value's   *)
(* children in document order (kids: the elements of an array, the         *)
(* [key, val] entries of an object).                                       *)
(***************************************************************************)
Digit(d) ==
    CASE d = 0 -> "0" [] d = 1 -> "1" [] d = 2 -> "2" [] d = 3 -> "3"
      [] d = 4 -> "4" [] d = 5 -> "5" [] d = 6 -> "6" [] d = 7 -> "7"
      [] d = 8 -> "8" [] d = 9 -> "9"

RECURSIVE Itoa(_)
\* fmt.Sprintf("%d", n): the one atom of the decimal numeral of n >= 0.
Itoa(n) == IF n < 10 THEN Digit(n) ELSE Itoa(n \div 10) \o Digit(n % 10)

\* gjson.Result{}: the value of a path that does not exist.
Absent == [type |-> "Null", raw |-> <<>>, str |-> <<>>, num |-> 0, kids |-> <<>>]

\* Result.Exists.
Exists(v) == v.type # "Null" \/ Len(v.raw) # 0

\* Result.IsObject, Result.IsArray: a JSON value whose raw text starts with { or [.
IsObject(v) == v.type = "JSON" /\ Len(v.raw) > 0 /\ v.raw[1] = "{"

IsArray(v) == v.type = "JSON" /\ Len(v.raw) > 0 /\ v.raw[1] = "["

\* gjson.Parse of the literals the code formats itself.
NullVal == [type |-> "Null", raw |-> <<"null">>, str |-> <<>>, num |-> 0, kids |-> <<>>]

BoolVal(b) ==
    [type |-> IF b THEN "True" ELSE "False", raw |-> <<IF b THEN "true" ELSE "false">>,
     str |-> <<>>, num |-> 0, kids |-> <<>>]

NumVal(n) == [type |-> "Number", raw |-> <<Itoa(n)>>, str |-> <<>>, num |-> n, kids |-> <<>>]

\* gjson.Parse(fmt.Sprintf("%q", text)) for a text without characters to escape.
StrVal(text) ==
    [type |-> "String", raw |-> <<"\"">> \o text \o <<"\"">>, str |-> text,
     num |-> 0, kids |-> <<>>]

RECURSIVE JoinRaw(_, _)
\* The raw texts of the items, comma separated.
JoinRaw(items, i) ==
    IF i > Len(items) THEN <<>>
    ELSE (IF i > 1 THEN <<",">> ELSE <<>>) \o items[i] \o JoinRaw(items, i + 1)

\* An array of the document, written compactly, and one written as `raw`.
ArrRaw(raw, elems) == [type |-> "JSON", raw |-> raw, str |-> <<>>, num |-> 0, kids |-> elems]

Arr(elems) ==
    ArrRaw(<<"[">> \o JoinRaw([i \in 1..Len(elems) |-> elems[i].raw], 1) \o <<"]">>, elems)

\* An object of the document: entries are [key |-> atom, val |-> value] in document order.
ObjRaw(raw, entries) == [type |-> "JSON", raw |-> raw, str |-> <<>>, num |-> 0, kids |-> entries]

Obj(entries) ==
    ObjRaw(<<"{">> \o JoinRaw([i \in 1..Len(entries) |->
                         <<"\"", entries[i].key, "\"", ":">> \o entries[i].val.raw], 1)
               \o <<"}">>, entries)

KV(k, v) == [key |-> k, val |-> v]

\* Result.String: the text a value prints as.
String(v) ==
    CASE v.type = "String" -> v.str
      [] v.type = "Null"   -> <<>>
      [] OTHER             -> v.raw


(***************************************************************************)
(* Result.Get(path): the path is split at its dots and each segment        *)
(* selects an entry of an object by key, an element of an array by its     *)
(* decimal index, or the length of an array (#).  The rest of gjson's path *)
(* syntax (wildcards, queries, modifiers) is not modelled: such a segment  *)
(* selects nothing.                                                        *)
(***************************************************************************)
RECURSIVE IndexOfDot(_, _)
IndexOfDot(path, i) ==
    IF i > Len(path) THEN 0 ELSE IF path[i] = "." THEN i ELSE IndexOfDot(path, i + 1)

RECURSIVE Segments(_)
Segments(path) ==
    LET d == IndexOfDot(path, 1) IN
    IF d = 0 THEN <<path>>
    ELSE <<SubSeq(path, 1, d - 1)>> \o Segments(SubSeq(path, d + 1, Len(path)))

RECURSIVE FindKey(_, _, _)
FindKey(entries, key, i) ==
    IF i > Len(entries) THEN Absent
    ELSE IF entries[i].key = key THEN entries[i].val ELSE FindKey(entries, key, i + 1)

GetSegment(v, seg) ==
    IF Len(seg) # 1 THEN Absent
    ELSE IF IsObject(v) THEN FindKey(v.kids, seg[1], 1)
    ELSE IF IsArray(v) THEN
        IF seg[1] = "#" THEN NumVal(Len(v.kids))
        ELSE LET hit == {i \in 1..Len(v.kids) : Itoa(i - 1) = seg[1]} IN
             IF hit = {} THEN Absent ELSE v.kids[CHOOSE i \in hit : TRUE]
    ELSE Absent

RECURSIVE GetSegments(_, _, _)
GetSegments(v, segs, i) ==
    IF i > Len(segs) THEN v ELSE GetSegments(GetSegment(v, segs[i]), segs, i + 1)

Get(v, path) == GetSegments(v, Segments(path), 1)

\* strings.Join(ident, ".").
RECURSIVE JoinDots(_, _)
JoinDots(ident, i) ==
    IF i > Len(ident) THEN <<>>
    ELSE (IF i > 1 THEN <<".">> ELSE <<>>) \o <<ident[i]>> \o JoinDots(ident, i + 1)

(***************************************************************************)
(* gjson.ParseBytes on the input document.  The document is given as its   *)
(* text and the entries gjson navigates in it.  Parse does not validate:   *)
(* it skips blanks and decides the type from the first other character, so *)
(* a text starting with { or [ is a JSON value with the whole rest as Raw. *)
(***************************************************************************)
Numerals == {Itoa(n) : n \in 0..MaxNum}

ParseNumeral(a) == CHOOSE n \in 0..MaxNum : Itoa(n) = a

RECURSIVE SkipBlanks(_)
SkipBlanks(text) ==
    IF Len(text) > 0 /\ text[1] = " " THEN SkipBlanks(Tail(text)) ELSE text

ParseBytes(data) ==
    LET t == SkipBlanks(data.text) IN
    IF Len(t) = 0 THEN Absent
    ELSE CASE t[1] \in {"{", "["} ->
                [type |-> "JSON", raw |-> t, str |-> <<>>, num |-> 0, kids |-> data.kids]
           [] t[1] \in Numerals -> NumVal(ParseNumeral(t[1]))
           [] t[1] = "true"     -> BoolVal(TRUE)
           [] t[1] = "false"    -> BoolVal(FALSE)
           [] t[1] = "null"     -> NullVal
           [] t[1] = "\"" /\ Len(t) >= 3 -> StrVal(SubSeq(t, 2, Len(t) - 1))
           [] OTHER             -> Absent

\* The input bytes of a well-formed document value.
Bytes(v) == [text |-> v.raw, kids |-> v.kids]

(***************************************************************************)
(* Panic values.  A panic in flight is one of: the two loop sentinels      *)
(* (plain errors), an ExecError (errorf), a writeError (a failed Write), a *)
(* runtime.Error (a Go run-time panic).                                    *)
(***************************************************************************)
NoPanic == [class |-> "none", name |-> "", msg |-> ""]

walkBreak == [class |-> "error", name |-> "", msg |-> "break"]

walkContinue == [class |-> "error", name |-> "", msg |-> "continue"]

\* state.errorf: an ExecError that carries the name of the state's template.
errorf(s, msg) == [class |-> "ExecError", name |-> s.tmpl, msg |-> msg]

\* state.writeError: the wrapper around the sink's error.
writeError(err) == [class |-> "writeError", name |-> "", msg |-> err]

RuntimeError(msg) == [class |-> "runtime.Error", name |-> "", msg |-> msg]

(***************************************************************************)
(* The variable stack of a state.                                          *)
(***************************************************************************)
push(vars, name, value) == Append(vars, [name |-> name, value |-> value])

mark(vars) == Len(vars)

\* A pop that forgets to truncate.
popNothing(vars, m) == vars

\* A pop that truncates one slot below the mark.
popBelow(vars, m) == SubSeq(vars, 1, m - 1)

pop(vars, m) == SubSeq(vars, 1, m)

RECURSIVE LastNamed(_, _, _)
\* The index of the last declared variable called name, 0 if there is none.
LastNamed(vars, name, i) ==
    IF i = 0 THEN 0 ELSE IF vars[i].name = name THEN i ELSE LastNamed(vars, name, i - 1)

\* A setVar that overwrites the first declared variable of that name.
setVarFirst(s, name, value) ==
    LET named == {i \in 1..Len(s.vars) : s.vars[i].name = name} IN
    IF named # {}
    THEN [vars |-> [s.vars EXCEPT ![CHOOSE i \in named : \A j \in named : i <= j].value = value],
          sig |-> NoPanic]
    ELSE [vars |-> s.vars, sig |-> errorf(s, "undefined variable")]

\* setVar: the new stack, or the stack unchanged and the fault.
setVar(s, name, value) ==
    LET i == LastNamed(s.vars, name, mark(s.vars)) IN
    IF i > 0 THEN [vars |-> [s.vars EXCEPT ![i].value = value], sig |-> NoPanic]
    ELSE [vars |-> s.vars, sig |-> errorf(s, "undefined variable")]

\* A setTopVar that is off by one slot.
setTopVarBelow(s, n, value) ==
    IF n < Len(s.vars)
    THEN [vars |-> [s.vars EXCEPT ![Len(s.vars) - n].value = value], sig |-> NoPanic]
    ELSE [vars |-> s.vars, sig |-> RuntimeError("index out of range")]

\* setTopVar: overwrites the top-nth variable; indexing below the stack panics.
setTopVar(s, n, value) ==
    IF n <= Len(s.vars)
    THEN [vars |-> [s.vars EXCEPT ![Len(s.vars) - n + 1].value = value], sig |-> NoPanic]
    ELSE [vars |-> s.vars, sig |-> RuntimeError("index out of range")]

\* varValue: the value of the named variable, or the fault.
varValue(s, name) ==
    LET i == LastNamed(s.vars, name, mark(s.vars)) IN
    IF i > 0 THEN [val |-> s.vars[i].value, sig |-> NoPanic]
    ELSE [val |-> Absent, sig |-> errorf(s, "undefined variable")]


(***************************************************************************)
(* The syntax tree (package parse), read-only.  NilList and NilPipe are    *)
(* the nil *ListNode and nil *PipeNode.                                    *)
(***************************************************************************)
NilList == [type |-> "nil"]

NilPipe == [type |-> "nil"]

ListNode(nodes) == [type |-> "List", nodes |-> nodes]

TextNode(text) == [type |-> "Text", text |-> text]

ActionNode(pipe) == [type |-> "Action", pipe |-> pipe]

BreakNode == [type |-> "Break"]

ContinueNode == [type |-> "Continue"]

CommentNode == [type |-> "Comment"]

IfNode(pipe, list, elseList) ==
    [type |-> "If", pipe |-> pipe, list |-> list, elseList |-> elseList]

WithNode(pipe, list, elseList) ==
    [type |-> "With", pipe |-> pipe, list |-> list, elseList |-> elseList]

RangeNode(pipe, list, elseList) ==
    [type |-> "Range", pipe |-> pipe, list |-> list, elseList |-> elseList]

TemplateNode(name, pipe) == [type |-> "Template", name |-> name, pipe |-> pipe]

\* A pipeline: its declared variables, whether it assigns (=) or declares (:=), its commands.
PipeNode(decl, isAssign, cmds) ==
    [type |-> "Pipe", decl |-> decl, isAssign |-> isAssign, cmds |-> cmds]

CommandNode(args) == [type |-> "Command", args |-> args]

FieldNode(ident) == [type |-> "Field", ident |-> ident]

VariableNode(ident) == [type |-> "Variable", ident |-> ident]

ChainNode(node, field) == [type |-> "Chain", node |-> node, field |-> field]

IdentifierNode(ident) == [type |-> "Identifier", ident |-> ident]

DotNode == [type |-> "Dot"]

NilNode == [type |-> "Nil"]

BoolNode(b) == [type |-> "Bool", true |-> b]

NumberNode(n) == [type |-> "Number", int64 |-> n]

StringNode(text) == [type |-> "String", text |-> text]

\* Shorthands: a pipeline of one command, and one that declares or assigns.
Pipe1(args) == PipeNode(<<>>, FALSE, <<CommandNode(args)>>)

Decl1(names, args) == PipeNode(names, FALSE, <<CommandNode(args)>>)

Assign1(names, args) == PipeNode(names, TRUE, <<CommandNode(args)>>)


(***************************************************************************)
(* The state of the system.                                                *)
(*   tset  the parsed template set the executions share, read-only: the    *)
(*         named templates' roots, the missingkey option, the registered   *)
(*         functions (name -> number of parameters);                       *)
(*   exec  per execution (goroutine): where it is (pc), its input, its Go  *)
(*         call stack below Execute (stack), the panic in flight (sig),    *)
(*         the value Execute returned (result);                            *)
(*   heap  the state structs, by identity: tmpl, vars, depth, wr;          *)
(*   sink  the writers, by identity: the bytes written (out), the number   *)
(*         of Write calls so far, and the call at which the writer fails   *)
(*         (failAt, 0 for never).                                          *)
(***************************************************************************)
VARIABLES tset, exec, heap, sink

vars == <<tset, exec, heap, sink>>

(***************************************************************************)
(* Evaluation.  An eval function returns the state struct as it left it    *)
(* (pipelines push and assign variables), the value, and the panic it      *)
(* raised, if any.                                                         *)
(***************************************************************************)
Ok(s, v) == [s |-> s, val |-> v, sig |-> NoPanic]

Raise(s, sig) == [s |-> s, val |-> Absent, sig |-> sig]

Faulted(r) == r.sig.class # "none"

\* A truth test that takes a container without elements for false.
isGjsonTrueStructural(val) ==
    IF ~Exists(val) THEN [truth |-> FALSE, ok |-> TRUE]
    ELSE CASE val.type = "Null"   -> [truth |-> FALSE, ok |-> TRUE]
           [] val.type = "False"  -> [truth |-> FALSE, ok |-> TRUE]
           [] val.type = "True"   -> [truth |-> TRUE, ok |-> TRUE]
           [] val.type = "Number" -> [truth |-> val.num # 0, ok |-> TRUE]
           [] val.type = "String" -> [truth |-> val.str # <<>>, ok |-> TRUE]
           [] val.type = "JSON"   -> [truth |-> Len(val.kids) > 0, ok |-> TRUE]

\* isGjsonTrue: the truth of a value, and whether it has one.
isGjsonTrue(val) ==
    IF ~Exists(val) THEN [truth |-> FALSE, ok |-> TRUE]
    ELSE CASE val.type = "Null"   -> [truth |-> FALSE, ok |-> TRUE]
           [] val.type = "False"  -> [truth |-> FALSE, ok |-> TRUE]
           [] val.type = "True"   -> [truth |-> TRUE, ok |-> TRUE]
           [] val.type = "Number" -> [truth |-> val.num # 0, ok |-> TRUE]
           [] val.type = "String" -> [truth |-> val.str # <<>>, ok |-> TRUE]
           [] val.type = "JSON"   ->
                IF IsArray(val) \/ IsObject(val)
                THEN [truth |-> val.raw # <<>> /\ val.raw # <<"[", "]">>
                                  /\ val.raw # <<"{", "}">>, ok |-> TRUE]
                ELSE [truth |-> FALSE, ok |-> FALSE]

\* notAFunction: the fault when a non-function is given an argument, else NoPanic.
notAFunction(s, args, final) ==
    IF Len(args) > 1 \/ Exists(final)
    THEN errorf(s, "can't give argument to non-function") ELSE NoPanic

\* evalFieldChain: .X.Y.Z as one gjson path on the receiver.
evalFieldChain(s, receiver, ident, args, final) ==
    LET path   == JoinDots(ident, 1)
        result == Get(receiver, path) IN
    IF ~Exists(result) /\ tset.missingKey = "mapError"
    THEN Raise(s, errorf(s, "path not found in data"))
    ELSE IF Len(args) > 1 \/ Exists(final)
    THEN Raise(s, errorf(s, "is not a method but has arguments"))
    ELSE Ok(s, result)

evalFieldNode(s, dot, field, args, final) ==
    evalFieldChain(s, dot, field.ident, args, final)

evalVariableNode(s, variable, args, final) ==
    LET v == varValue(s, variable.ident[1]) IN
    IF v.sig.class # "none" THEN Raise(s, v.sig)
    ELSE IF Len(variable.ident) = 1 THEN
        LET na == notAFunction(s, args, final) IN
        IF na.class # "none" THEN Raise(s, na) ELSE Ok(s, v.val)
    ELSE evalFieldChain(s, v.val, Tail(variable.ident), args, final)

\* idealConstantGjson, for the integer constants of the model.
idealConstantGjson(constant) == NumVal(constant.int64)

\* findFunction: the registered function of that name, if any.
findFunction(name) ==
    [found |-> name \in DOMAIN tset.funcs,
     arity |-> IF name \in DOMAIN tset.funcs THEN tset.funcs[name] ELSE 0]

RECURSIVE JoinTexts(_, _, _)
\* The texts joined with sep between them.
JoinTexts(texts, sep, i) ==
    IF i > Len(texts) THEN <<>>
    ELSE (IF i > 1 THEN sep ELSE <<>>) \o texts[i] \o JoinTexts(texts, sep, i + 1)

\* safeCall of a registered function: reflect refuses a wrong number of arguments;
\* the result is the text name(arg,...) of what the function was called with.
safeCall(name, arity, args) ==
    IF Len(args) # arity THEN [val |-> Absent, err |-> "wrong number of args"]
    ELSE [val |-> StrVal(<<name, "(">>
                         \o JoinTexts([i \in 1..Len(args) |-> String(args[i])], <<",">>, 1)
                         \o <<")">>),
          err |-> ""]

RECURSIVE ByteLen(_)
\* len of a Go string: the bytes of its atoms.
ByteLen(text) == IF text = <<>> THEN 0 ELSE Len(Head(text)) + ByteLen(Tail(text))


(***************************************************************************)
(* The eval methods call one another; Call is one such method call, and    *)
(* EvalPipeline .. EvalArg are the calls by name.                          *)
(***************************************************************************)
RECURSIVE Call(_, _, _, _, _, _)

\* body(v) for a value v computed once: a Go local variable assigned a call's result.
Bind(v, body(_)) == CHOOSE out \in {body(x) : x \in {v}} : TRUE

EvalPipeline(s, dot, pipe) == Call("evalPipeline", s, dot, pipe, <<>>, Absent)

EvalCommand(s, dot, cmd, final) == Call("evalCommand", s, dot, cmd, <<>>, final)

EvalChainNode(s, dot, chain, args, final) == Call("evalChainNode", s, dot, chain, args, final)

EvalFunction(s, dot, name, args, final) == Call("evalFunction", s, dot, name, args, final)

EvalArg(s, dot, n) == Call("evalArg", s, dot, n, <<>>, Absent)

RECURSIVE evalCommands(_, _, _, _, _)
RECURSIVE evalAndOr(_, _, _, _, _, _)
RECURSIVE evalArgsFrom(_, _, _, _, _)

RECURSIVE bindDecl(_, _, _, _, _)
\* The declaration step of evalPipeline: every declared name gets the same value.
bindDecl(s, decl, isAssign, value, i) ==
    IF i > Len(decl) THEN Ok(s, value)
    ELSE IF isAssign THEN
        LET r == setVar(s, decl[i], value) IN
        IF r.sig.class # "none" THEN Raise(s, r.sig)
        ELSE bindDecl([s EXCEPT !.vars = r.vars], decl, isAssign, value, i + 1)
    ELSE bindDecl([s EXCEPT !.vars = push(s.vars, decl[i], value)], decl, isAssign, value, i + 1)

\* The command loop of evalPipeline: the previous value is the next command's final.
evalCommands(s, dot, cmds, i, value) ==
    IF i > Len(cmds) THEN Ok(s, value)
    ELSE Bind(EvalCommand(s, dot, cmds[i], value),
              LAMBDA r : IF Faulted(r) THEN r ELSE evalCommands(r.s, dot, cmds, i + 1, r.val))

evalPipeline(s, dot, pipe) ==
    IF pipe.type = "nil" THEN Ok(s, Absent)
    ELSE Bind(evalCommands(s, dot, pipe.cmds, 1, Absent),
              LAMBDA r : IF Faulted(r) THEN r
                         ELSE bindDecl(r.s, pipe.decl, pipe.isAssign, r.val, 1))

evalCommand(s, dot, cmd, final) ==
    LET firstWord == cmd.args[1] IN
    IF firstWord.type = "String" /\ Len(firstWord.text) > 0
       /\ firstWord.text[1] = Backquote /\ firstWord.text[Len(firstWord.text)] = Backquote
    THEN \* Text[1 : len(Text)-1] panics when Text is the one backquote.
         IF Len(firstWord.text) < 2 THEN Raise(s, RuntimeError("slice bounds out of range"))
         ELSE LET path   == SubSeq(firstWord.text, 2, Len(firstWord.text) - 1)
                  result == Get(dot, path) IN
              IF ~Exists(result) /\ tset.missingKey = "mapError"
              THEN Raise(s, errorf(s, "gjson path not found in data"))
              ELSE IF Len(cmd.args) > 1 \/ Exists(final)
              THEN Raise(s, errorf(s, "gjson path is not a method but has arguments"))
              ELSE Ok(s, result)
    ELSE CASE firstWord.type = "Field" -> evalFieldNode(s, dot, firstWord, cmd.args, final)
           [] firstWord.type = "Chain" -> EvalChainNode(s, dot, firstWord, cmd.args, final)
           [] firstWord.type = "Identifier" ->
                EvalFunction(s, dot, firstWord.ident, cmd.args, final)
           [] firstWord.type = "Pipe" ->
                LET na == notAFunction(s, cmd.args, final) IN
                IF na.class # "none" THEN Raise(s, na) ELSE EvalPipeline(s, dot, firstWord)
           [] firstWord.type = "Variable" -> evalVariableNode(s, firstWord, cmd.args, final)
           [] OTHER ->
                LET na == notAFunction(s, cmd.args, final) IN
                IF na.class # "none" THEN Raise(s, na)
                ELSE CASE firstWord.type = "Bool"   -> Ok(s, BoolVal(firstWord.true))
                       [] firstWord.type = "Dot"    -> Ok(s, dot)
                       [] firstWord.type = "Nil"    ->
                            Raise(s, errorf(s, "nil is not a command"))
                       [] firstWord.type = "Number" -> Ok(s, idealConstantGjson(firstWord))
                       [] firstWord.type = "String" -> Ok(s, StrVal(firstWord.text))
                       [] OTHER -> Raise(s, errorf(s, "can't evaluate command"))

evalChainNode(s, dot, chain, args, final) ==
    IF Len(chain.field) = 0
    THEN Raise(s, errorf(s, "internal error: no fields in evalChainNode"))
    ELSE IF chain.node.type = "Nil"
    THEN Raise(s, errorf(s, "indirection through explicit nil"))
    ELSE Bind(EvalArg(s, dot, chain.node),
              LAMBDA pipe : IF Faulted(pipe) THEN pipe
                            ELSE evalFieldChain(pipe.s, pipe.val, chain.field, args, final))

\* Arguments i.. evaluated left to right; stops at the first fault.
evalArgsFrom(s, dot, args, i, acc) ==
    IF i > Len(args) THEN [s |-> s, vals |-> acc, sig |-> NoPanic]
    ELSE Bind(EvalArg(s, dot, args[i]),
              LAMBDA a : IF Faulted(a) THEN [s |-> a.s, vals |-> acc, sig |-> a.sig]
                         ELSE evalArgsFrom(a.s, dot, args, i + 1, Append(acc, a.val)))

\* and / or that evaluate every argument before they decide.
evalAndOrEager(s, dot, name, args, i, lastArg) ==
    Bind(evalArgsFrom(s, dot, args, i, <<>>),
         LAMBDA r :
             IF r.sig.class # "none" THEN Raise(r.s, r.sig)
             ELSE LET deciding == {k \in 1..Len(r.vals) :
                                      isGjsonTrue(r.vals[k]).truth = (name = "or")} IN
                  IF deciding = {} THEN Ok(r.s, r.vals[Len(r.vals)])
                  ELSE Ok(r.s, r.vals[CHOOSE k \in deciding : \A j \in deciding : k <= j]))

\* The short-circuit loop of and / or, from argument i on.
evalAndOr(s, dot, name, args, i, lastArg) ==
    IF i > Len(args) THEN Ok(s, lastArg)
    ELSE Bind(EvalArg(s, dot, args[i]),
              LAMBDA a :
                  IF Faulted(a) THEN a
                  ELSE LET t == isGjsonTrue(a.val) IN
                       IF ~t.ok THEN Raise(a.s, errorf(a.s, "can't use"))
                       ELSE IF name = "and" /\ ~t.truth THEN a
                       ELSE IF name = "or" /\ t.truth THEN a
                       ELSE evalAndOr(a.s, dot, name, args, i + 1, a.val))


\* The comparison of eq on two evaluated operands.
eqResult(arg1, arg2) ==
    IF arg1.type = "Number" /\ arg2.type = "Number" THEN arg1.num = arg2.num
    ELSE IF arg1.type = "Number" /\ arg2.type = "String" THEN
        \* strconv.ParseFloat of the string, for the numerals of the model.
        IF Len(arg2.str) = 1 /\ arg2.str[1] \in Numerals
        THEN arg1.num = ParseNumeral(arg2.str[1]) ELSE FALSE
    ELSE IF arg1.type = "String" /\ arg2.type = "Number" THEN
        IF Len(arg1.str) = 1 /\ arg1.str[1] \in Numerals
        THEN ParseNumeral(arg1.str[1]) = arg2.num ELSE FALSE
    ELSE arg1.raw = arg2.raw

\* ne as the negation of eq.
neResultCoerced(arg1, arg2) == ~eqResult(arg1, arg2)

\* The comparison of ne.
neResult(arg1, arg2) == arg1.raw # arg2.raw

(***************************************************************************)
(* evalFunction.  args[1] is the function's own node (Go's args[0]), so    *)
(* Len(args) is Go's len(args); evalArg passes no args at all.  Of the     *)
(* builtins the model has gjson, len, index, print, println, and, or, not, *)
(* eq, ne; any other name goes to the registered functions.                *)
(***************************************************************************)
\* The builtins of evalFunction once their operands have been evaluated: a is
\* the outcome of evalArg, r that of the argument loop.
gjsonOf(dot, a) ==
    IF Faulted(a) THEN a
    ELSE IF a.val.type # "String"
    THEN Raise(a.s, errorf(a.s, "gjson requires a string path argument"))
    ELSE IF ~Exists(Get(dot, String(a.val))) /\ tset.missingKey = "mapError"
    THEN Raise(a.s, errorf(a.s, "gjson path not found in data"))
    ELSE Ok(a.s, Get(dot, String(a.val)))

lenOf(a) ==
    IF Faulted(a) THEN a
    ELSE IF IsArray(a.val) \/ IsObject(a.val) THEN Ok(a.s, NumVal(Len(a.val.kids)))
    ELSE IF a.val.type = "String" THEN Ok(a.s, NumVal(ByteLen(String(a.val))))
    ELSE Ok(a.s, NumVal(0))

indexOf(r) ==
    IF r.sig.class # "none" THEN Raise(r.s, r.sig)
    ELSE LET container == r.vals[1]
             key       == r.vals[2] IN
         IF IsArray(container) THEN
             IF key.type # "Number"
             THEN Raise(r.s, errorf(r.s, "index of array must be integer"))
             ELSE IF key.num < 0 \/ key.num >= Len(container.kids)
             THEN Raise(r.s, errorf(r.s, "array index out of range"))
             ELSE Ok(r.s, container.kids[key.num + 1])
         ELSE IF IsObject(container) THEN Ok(r.s, Get(container, String(key)))
         ELSE Raise(r.s, errorf(r.s, "can't index"))

printOf(name, r) ==
    IF r.sig.class # "none" THEN Raise(r.s, r.sig)
    ELSE Ok(r.s, StrVal(JoinTexts([i \in 1..Len(r.vals) |-> String(r.vals[i])], <<" ">>, 1)
                        \o (IF name = "println" THEN <<"\n">> ELSE <<>>)))

notOf(a) ==
    IF Faulted(a) THEN a
    ELSE LET t == isGjsonTrue(a.val) IN
         IF ~t.ok THEN Raise(a.s, errorf(a.s, "not can't use"))
         ELSE Ok(a.s, BoolVal(~t.truth))

compareOf(name, r) ==
    IF r.sig.class # "none" THEN Raise(r.s, r.sig)
    ELSE Ok(r.s, BoolVal(IF name = "eq" THEN eqResult(r.vals[1], r.vals[2])
                                       ELSE neResult(r.vals[1], r.vals[2])))

\* The call of registered function name, of the given arity, on evaluated arguments.
registeredOf(name, arity, r) ==
    IF r.sig.class # "none" THEN Raise(r.s, r.sig)
    ELSE LET c == safeCall(name, arity, r.vals) IN
         IF c.err # "" THEN Raise(r.s, errorf(r.s, c.err)) ELSE Ok(r.s, c.val)

evalFunction(s, dot, name, args, final) ==
    CASE name = "gjson" ->
            IF Len(args) # 2 THEN Raise(s, errorf(s, "wrong number of args"))
            ELSE Bind(EvalArg(s, dot, args[2]), LAMBDA a : gjsonOf(dot, a))
      [] name = "len" ->
            IF Len(args) # 2 THEN Raise(s, errorf(s, "wrong number of args"))
            ELSE Bind(EvalArg(s, dot, args[2]), LAMBDA a : lenOf(a))
      [] name = "index" ->
            IF Len(args) < 3 THEN Raise(s, errorf(s, "wrong number of args"))
            ELSE Bind(evalArgsFrom(s, dot, SubSeq(args, 1, 3), 2, <<>>), LAMBDA r : indexOf(r))
      [] name \in {"print", "println"} ->
            Bind(evalArgsFrom(s, dot, args, 2, <<>>), LAMBDA r : printOf(name, r))
      [] name \in {"and", "or"} ->
            IF Len(args) < 2 THEN Raise(s, errorf(s, "wrong number of args"))
            ELSE evalAndOr(s, dot, name, args, 2, Absent)
      [] name = "not" ->
            IF Len(args) # 2 THEN Raise(s, errorf(s, "wrong number of args"))
            ELSE Bind(EvalArg(s, dot, args[2]), LAMBDA a : notOf(a))
      [] name \in {"eq", "ne"} ->
            IF Len(args) < 3 THEN Raise(s, errorf(s, "wrong number of args"))
            ELSE Bind(evalArgsFrom(s, dot, SubSeq(args, 1, 3), 2, <<>>),
                      LAMBDA r : compareOf(name, r))
      [] OTHER ->
            IF ~findFunction(name).found
            THEN Raise(s, errorf(s, "function not implemented for gjson"))
            \* make([]reflect.Value, 0, len(args)-1) panics for a negative capacity.
            ELSE IF Len(args) - 1 < 0 THEN Raise(s, RuntimeError("makeslice: cap out of range"))
            ELSE Bind(evalArgsFrom(s, dot, args, 2, <<>>),
                      LAMBDA r : registeredOf(name, findFunction(name).arity, r))

evalArg(s, dot, n) ==
    CASE n.type = "Dot"        -> Ok(s, dot)
      [] n.type = "Nil"        -> Ok(s, NullVal)
      [] n.type = "Field"      -> evalFieldNode(s, dot, n, <<n>>, Absent)
      [] n.type = "Variable"   -> evalVariableNode(s, n, <<>>, Absent)
      [] n.type = "Pipe"       -> EvalPipeline(s, dot, n)
      [] n.type = "Identifier" -> EvalFunction(s, dot, n.ident, <<>>, Absent)
      [] n.type = "Chain"      -> EvalChainNode(s, dot, n, <<>>, Absent)
      [] n.type = "Bool"       -> Ok(s, BoolVal(n.true))
      [] n.type = "Number"     -> Ok(s, idealConstantGjson(n))
      [] n.type = "String"     -> Ok(s, StrVal(n.text))
      [] OTHER                 -> Raise(s, errorf(s, "can't handle for arg"))

Call(method, s, dot, x, args, final) ==
    CASE method = "evalPipeline"  -> evalPipeline(s, dot, x)
      [] method = "evalCommand"   -> evalCommand(s, dot, x, final)
      [] method = "evalChainNode" -> evalChainNode(s, dot, x, args, final)
      [] method = "evalFunction"  -> evalFunction(s, dot, x, args, final)
      [] method = "evalArg"       -> evalArg(s, dot, x)


(***************************************************************************)
(* The walker.  An execution's Go call stack below Execute is a sequence   *)
(* of frames, innermost last:                                              *)
(*   list    walk of a ListNode: the children, the next child, the dot;    *)
(*   ifwith  walkIfOrWith: the mark its deferred pop restores;             *)
(*   range   walkRange: mark0 of its deferred pop, the mark taken after    *)
(*           the pipeline, the <<index, element>> pairs to iterate, the    *)
(*           next pair, the node, the outer dot;                           *)
(*   iter    oneIteration: the mark its deferred pop restores;             *)
(*   call    walkTemplate: the caller's state struct (the callee runs on   *)
(*           newState, a copy the caller's frames never see).              *)
(* A step returns the control record, the current state struct and the     *)
(* sinks as it left them.  ev records the operation performed last, the    *)
(* panic in flight and the length of the variable stack when it began;     *)
(* only properties read it.                                                *)
(***************************************************************************)
maxExecDepth == DepthCeiling

ListFrame(list, dot) == [k |-> "list", nodes |-> list.nodes, i |-> 1, dot |-> dot]

IfWithFrame(m) == [k |-> "ifwith", mark |-> m]

RangeFrame(m0, m, items, r, dot) ==
    [k |-> "range", mark0 |-> m0, mark |-> m, items |-> items, i |-> 1, r |-> r, dot |-> dot]

IterFrame(m) == [k |-> "iter", mark |-> m]

CallFrame(s) == [k |-> "call", s |-> s]

Top(c) == c.stack[Len(c.stack)]

Pushed(c, frames) == [c EXCEPT !.stack = c.stack \o frames]

Popped(c) == [c EXCEPT !.stack = SubSeq(c.stack, 1, Len(c.stack) - 1)]

\* The operation, the panic in flight and the stack length when it began.
Event(op, sig, vlen) == [op |-> op, sig |-> sig, vlen |-> vlen]

Saw(c, s, op) == [c EXCEPT !.ev = Event(op, c.sig, Len(s.vars))]

Out(c, s, K) == [c |-> c, s |-> s, K |-> K]

\* io.Writer.Write on sink w: the failAt-th call fails and writes nothing.
Write(K, w, bytes) ==
    IF K[w].calls + 1 = K[w].failAt
    THEN [K |-> [K EXCEPT ![w].calls = @ + 1], err |-> "sink error"]
    ELSE [K |-> [K EXCEPT ![w].calls = @ + 1, ![w].out = @ \o bytes], err |-> ""]

\* What follows a Write: s.writeError(err) if it failed.
written(c, s, w) ==
    IF w.err # "" THEN Out([c EXCEPT !.sig = writeError(w.err)], s, w.K)
    ELSE Out(c, s, w.K)

\* The TextNode case of walk.
walkText(c, s, K, node) == written(c, s, Write(K, s.wr, node.text))

\* The text printValue writes for a value.
printableValue(v) ==
    IF ~Exists(v) THEN <<>>
    ELSE IF v.type = "String" THEN String(v)
    ELSE IF v.type = "JSON" THEN (IF IsObject(v) \/ IsArray(v) THEN v.raw ELSE String(v))
    ELSE v.raw

\* printValue: the text a value is written as, then the write.
printValue(c, s, K, v) == written(c, s, Write(K, s.wr, printableValue(v)))

\* walkAction once the pipeline has been evaluated, with result r.
walkActionOn(c, K, node, r) ==
    IF Faulted(r) THEN Out([c EXCEPT !.sig = r.sig], r.s, K)
    ELSE IF Len(node.pipe.decl) = 0 THEN printValue(c, r.s, K, r.val)
    ELSE Out(c, r.s, K)

\* The ActionNode case of walk.
walkAction(c, s, K, dot, node) ==
    Bind(EvalPipeline(s, dot, node.pipe), LAMBDA r : walkActionOn(c, K, node, r))

\* A walkIfOrWith whose with leaves dot as it is.
walkIfOrWithOnDot(c1, K, dot, node, r, t) ==
    IF Faulted(r) THEN Out([c1 EXCEPT !.sig = r.sig], r.s, K)
    ELSE IF ~t.ok THEN Out([c1 EXCEPT !.sig = errorf(r.s, "if/with can't use")], r.s, K)
    ELSE IF t.truth THEN Out(Pushed(c1, <<ListFrame(node.list, dot)>>), r.s, K)
    ELSE IF node.elseList.type # "nil" THEN
        Out(Pushed(c1, <<ListFrame(node.elseList, dot)>>), r.s, K)
    ELSE Out(c1, r.s, K)

\* walkIfOrWith once the pipeline has been evaluated, with result r of truth t.
walkIfOrWithOn(c1, K, dot, node, r, t) ==
    IF Faulted(r) THEN Out([c1 EXCEPT !.sig = r.sig], r.s, K)
    ELSE IF ~t.ok THEN Out([c1 EXCEPT !.sig = errorf(r.s, "if/with can't use")], r.s, K)
    ELSE IF t.truth THEN
        Out(Pushed(c1, <<ListFrame(node.list, IF node.type = "With" THEN r.val ELSE dot)>>),
            r.s, K)
    ELSE IF node.elseList.type # "nil" THEN
        Out(Pushed(c1, <<ListFrame(node.elseList, dot)>>), r.s, K)
    ELSE Out(c1, r.s, K)

\* walkIfOrWith up to the walk of the chosen list; its deferred pop is ExitIfWith.
walkIfOrWith(c, s, K, dot, node) ==
    Bind(EvalPipeline(s, dot, node.pipe),
         LAMBDA r : walkIfOrWithOn(Pushed(c, <<IfWithFrame(mark(s.vars))>>), K, dot, node, r,
                                   isGjsonTrue(r.val)))


RECURSIVE ByteOffsets(_, _, _)
\* The byte offset of each atom of a text.
ByteOffsets(text, i, off) ==
    IF i > Len(text) THEN <<>>
    ELSE <<off>> \o ByteOffsets(text, i + 1, off + Len(text[i]))

\* An iteration that takes the value for the key and the key for the value.
PairSwapped(index, elem) == [index |-> elem, elem |-> index]

Pair(index, elem) == [index |-> index, elem |-> elem]

\* Items that count a Number from 1.
rangeItemsFromOne(val) ==
    IF IsArray(val) THEN [i \in 1..Len(val.kids) |-> Pair(NumVal(i - 1), val.kids[i])]
    ELSE IF IsObject(val)
    THEN [i \in 1..Len(val.kids) |-> Pair(StrVal(<<val.kids[i].key>>), val.kids[i].val)]
    ELSE IF val.type = "Number"
    THEN [i \in 1..val.num |-> Pair(NumVal(i), NumVal(i))]
    ELSE LET str == String(val)
             off == ByteOffsets(str, 1, 0) IN
         [i \in 1..Len(str) |-> Pair(NumVal(off[i]), StrVal(<<str[i]>>))]

\* The (index, element) pairs walkRange iterates for an iterable value: the
\* elements of an array, the entries ForEach yields, 0..N-1, the characters of a
\* string (a ranged string of the model has one-character atoms).
rangeItems(val) ==
    IF IsArray(val) THEN [i \in 1..Len(val.kids) |-> Pair(NumVal(i - 1), val.kids[i])]
    ELSE IF IsObject(val)
    THEN [i \in 1..Len(val.kids) |-> Pair(StrVal(<<val.kids[i].key>>), val.kids[i].val)]
    ELSE IF val.type = "Number"
    THEN [i \in 1..val.num |-> Pair(NumVal(i - 1), NumVal(i - 1))]
    ELSE LET str == String(val)
             off == ByteOffsets(str, 1, 0) IN
         [i \in 1..Len(str) |-> Pair(NumVal(off[i]), StrVal(<<str[i]>>))]

\* Whether walkRange takes the else branch (walks ElseList, if any, and returns).
rangeIsEmpty(val) ==
    IF IsArray(val) THEN Len(val.kids) = 0
    ELSE IF IsObject(val) THEN ~Exists(val) \/ val.raw = <<"{", "}">>
    ELSE IF val.type = "Number" THEN val.num <= 0
    ELSE String(val) = <<>>

\* A walkRange that takes the else list for a value it cannot iterate over.
walkRangeOnElse(c, K, dot, r, m0, p) ==
    LET m == mark(p.s.vars)
        stopped(sig) ==
            Out([Pushed(c, <<RangeFrame(m0, m, <<>>, r, dot)>>) EXCEPT !.sig = sig], p.s, K) IN
    IF Faulted(p) THEN stopped(p.sig)
    ELSE IF p.val.type = "Number" /\ Len(r.pipe.decl) > 1
    THEN stopped(errorf(p.s, "can't use to iterate over more than one variable"))
    ELSE IF ~(IsArray(p.val) \/ IsObject(p.val) \/ p.val.type \in {"Number", "String"})
            \/ rangeIsEmpty(p.val) THEN
        Out(Pushed(c, <<RangeFrame(m0, m, <<>>, r, dot)>>
                      \o (IF r.elseList.type # "nil" THEN <<ListFrame(r.elseList, dot)>>
                          ELSE <<>>)),
            p.s, K)
    ELSE Out(Pushed(c, <<RangeFrame(m0, m, rangeItems(p.val), r, dot)>>), p.s, K)

\* walkRange once the pipeline has been evaluated, with result p; m0 is the mark
\* of the deferred pop, taken before.
walkRangeOn(c, K, dot, r, m0, p) ==
    LET m == mark(p.s.vars)
        stopped(sig) ==
            Out([Pushed(c, <<RangeFrame(m0, m, <<>>, r, dot)>>) EXCEPT !.sig = sig], p.s, K) IN
    IF Faulted(p) THEN stopped(p.sig)
    ELSE IF ~(IsArray(p.val) \/ IsObject(p.val) \/ p.val.type \in {"Number", "String"})
    THEN stopped(errorf(p.s, "range can't iterate over"))
    ELSE IF p.val.type = "Number" /\ Len(r.pipe.decl) > 1
    THEN stopped(errorf(p.s, "can't use to iterate over more than one variable"))
    ELSE IF rangeIsEmpty(p.val) THEN
        Out(Pushed(c, <<RangeFrame(m0, m, <<>>, r, dot)>>
                      \o (IF r.elseList.type # "nil" THEN <<ListFrame(r.elseList, dot)>>
                          ELSE <<>>)),
            p.s, K)
    ELSE Out(Pushed(c, <<RangeFrame(m0, m, rangeItems(p.val), r, dot)>>), p.s, K)

\* walkRange up to its loop; its deferred pop and recover are ExitRange.
walkRange(c, s, K, dot, r) ==
    Bind(EvalPipeline(s, dot, r.pipe), LAMBDA p : walkRangeOn(c, K, dot, r, mark(s.vars), p))

\* A first binding that assigns the element where the index is due.
bindFirstElem(s, pipe, index, elem) ==
    IF Len(pipe.decl) = 0 THEN [vars |-> s.vars, sig |-> NoPanic]
    ELSE IF pipe.isAssign THEN setVar(s, pipe.decl[1], elem)
    ELSE setTopVar(s, 1, elem)

\* The first loop variable binding of oneIteration: the new stack, or the fault.
bindFirst(s, pipe, index, elem) ==
    IF Len(pipe.decl) = 0 THEN [vars |-> s.vars, sig |-> NoPanic]
    ELSE IF pipe.isAssign THEN
        (IF Len(pipe.decl) > 1 THEN setVar(s, pipe.decl[1], index)
         ELSE setVar(s, pipe.decl[1], elem))
    ELSE setTopVar(s, 1, elem)

\* The second binding, after the first gave the stack and fault of first.
bindSecond(s, pipe, index, elem, first) ==
    IF first.sig.class # "none" \/ Len(pipe.decl) <= 1 THEN first
    ELSE IF pipe.isAssign THEN setVar([s EXCEPT !.vars = first.vars], pipe.decl[2], elem)
    ELSE setTopVar([s EXCEPT !.vars = first.vars], 2, index)

\* The loop variable bindings of oneIteration: the new stack, or the fault.
bindLoopVars(s, pipe, index, elem) ==
    bindSecond(s, pipe, index, elem, bindFirst(s, pipe, index, elem))

\* A loop that moves on by two.
nextIndexSkip(i) == i + 2

\* A loop that does not move on.
nextIndexSame(i) == i

\* The loop index after one more iteration has been started.
nextIndex(i) == i + 1

\* oneIteration on item it of range frame f, after its bindings b, up to the walk
\* of the body.
oneIteration(c1, s, K, f, it, b) ==
    IF b.sig.class # "none" THEN Out([c1 EXCEPT !.sig = b.sig], [s EXCEPT !.vars = b.vars], K)
    ELSE Out(Pushed(c1, <<IterFrame(f.mark), ListFrame(f.r.list, it.elem)>>),
             [s EXCEPT !.vars = b.vars], K)

\* One turn of the loop of range frame f: the loop moves on, oneIteration begins.
rangeTurn(c, s, K, f, it) ==
    oneIteration([c EXCEPT !.stack[Len(c.stack)].i = nextIndex(f.i)], s, K, f, it,
                 bindLoopVars(s, f.r.pipe, it.index, it.elem))

rangeNext(c, s, K) == rangeTurn(c, s, K, Top(c), Top(c).items[Top(c).i])

\* A recover in oneIteration that consumes every panic.
iterRecoverAll(sig) == NoPanic

\* A recover in oneIteration that lets every panic through.
iterRecoverNothing(sig) == sig

\* The deferred recover of oneIteration: consumes panic(walkContinue).
iterRecover(sig) == IF sig = walkContinue THEN NoPanic ELSE sig

\* oneIteration returns or panics: its recover, then its deferred pop(mark).
exitIteration(c, s, K) ==
    Out([Popped(c) EXCEPT !.sig = iterRecover(c.sig)],
        [s EXCEPT !.vars = pop(s.vars, Top(c).mark)], K)

\* A recover in walkRange that consumes every panic.
rangeRecoverAll(sig) == NoPanic

\* A recover in walkRange that lets every panic through.
rangeRecoverNothing(sig) == sig

\* The deferred recover of walkRange: consumes panic(walkBreak).
rangeRecover(sig) == IF sig = walkBreak THEN NoPanic ELSE sig

\* walkRange returns or panics: its deferred pop(mark0), then its recover.
exitRange(c, s, K) ==
    Out([Popped(c) EXCEPT !.sig = rangeRecover(c.sig)],
        [s EXCEPT !.vars = pop(s.vars, Top(c).mark0)], K)

\* walkIfOrWith returns or panics: its deferred pop(mark).
exitIfWith(c, s, K) == Out(Popped(c), [s EXCEPT !.vars = pop(s.vars, Top(c).mark)], K)

\* The loop of the ListNode case is over, or a panic passes through it.
returnList(c, s, K) == Out(Popped(c), s, K)

\* Template.Lookup: whether the set has a template of that name.
Lookup(name) == name \in DOMAIN tset.tmpls

\* A depth check that is late by one call.
depthReachedLate(s) == s.depth = maxExecDepth + 1

\* The depth check of walkTemplate.
depthReached(s) == s.depth = maxExecDepth

\* A newState that keeps the caller's variables.
newStateInherit(c, K, t, p) ==
    IF Faulted(p) THEN Out([c EXCEPT !.sig = p.sig], p.s, K)
    ELSE Out(Pushed(c, <<CallFrame(p.s), ListFrame(tset.tmpls[t.name], p.val)>>),
             [p.s EXCEPT !.depth = @ + 1, !.tmpl = t.name], K)

\* walkTemplate once the pipeline has been evaluated, with result p: newState,
\* up to the walk of the callee's root on it.
newState(c, K, t, p) ==
    IF Faulted(p) THEN Out([c EXCEPT !.sig = p.sig], p.s, K)
    ELSE Out(Pushed(c, <<CallFrame(p.s), ListFrame(tset.tmpls[t.name], p.val)>>),
             [p.s EXCEPT !.depth = @ + 1, !.tmpl = t.name,
                         !.vars = <<[name |-> "$", value |-> p.val]>>],
             K)

\* A walkTemplate that evaluates the pipeline before the lookup and the depth check.
walkTemplatePipeFirst(c, s, K, dot, t) ==
    Bind(EvalPipeline(s, dot, t.pipe),
         LAMBDA p :
             IF Faulted(p) THEN Out([c EXCEPT !.sig = p.sig], p.s, K)
             ELSE IF ~Lookup(t.name)
             THEN Out([c EXCEPT !.sig = errorf(s, "template not defined")], p.s, K)
             ELSE IF depthReached(s)
             THEN Out([c EXCEPT !.sig = errorf(s, "exceeded maximum template depth")], p.s, K)
             ELSE newState(c, K, t, p))

walkTemplate(c, s, K, dot, t) ==
    IF ~Lookup(t.name) THEN Out([c EXCEPT !.sig = errorf(s, "template not defined")], s, K)
    ELSE IF depthReached(s)
    THEN Out([c EXCEPT !.sig = errorf(s, "exceeded maximum template depth")], s, K)
    ELSE Bind(EvalPipeline(s, dot, t.pipe), LAMBDA p : newState(c, K, t, p))

\* walkTemplate returns or a panic passes through it: the caller's state is current again.
returnTemplate(c, s, K) == Out(Popped(c), Top(c).s, K)


(***************************************************************************)
(* Execute and errRecover.                                                 *)
(***************************************************************************)
NoResult == [class |-> "none", name |-> "", msg |-> ""]

\* The state struct of an execution that has not built one yet.
NoState == [tmpl |-> "", vars |-> <<>>, depth |-> 0, wr |-> 0]

\* Template.execute after gjson.ParseBytes(data), up to the walk of the root.
executeOn(c, s, K, jsonResult) ==
    LET state == [tmpl |-> c.main, wr |-> c.wr, depth |-> 0,
                  vars |-> <<[name |-> "$", value |-> jsonResult]>>] IN
    IF ~IsObject(jsonResult) /\ ~IsArray(jsonResult)
    THEN Out([c EXCEPT !.pc = "done",
                       !.result = [class |-> "error", name |-> "",
                                   msg |-> "data must be a valid JSON object or array"]],
             s, K)
    ELSE IF tset.tmpls[c.main].type = "nil"
    THEN Out([c EXCEPT !.pc = "running",
                       !.sig = errorf(state, "is an incomplete or empty template")],
             state, K)
    ELSE Out([c EXCEPT !.pc = "running",
                       !.stack = <<ListFrame(tset.tmpls[c.main], jsonResult)>>],
             state, K)

execute(c, s, K) == executeOn(c, s, K, ParseBytes(c.data))

\* An errRecover that keeps the wrapper of a write error as it keeps an ExecError.
errRecoverWrapped(sig) ==
    CASE sig.class = "none"          -> [class |-> "nil", name |-> "", msg |-> ""]
      [] sig.class = "runtime.Error" -> [class |-> "panic", name |-> "", msg |-> sig.msg]
      [] OTHER                       -> sig

\* errRecover: what Execute returns for the panic that reached it, or that the
\* panic goes on into the caller of Execute (class "panic").
errRecover(sig) ==
    CASE sig.class = "none"          -> [class |-> "nil", name |-> "", msg |-> ""]
      [] sig.class = "runtime.Error" -> [class |-> "panic", name |-> "", msg |-> sig.msg]
      [] sig.class = "writeError"    -> [class |-> "error", name |-> "", msg |-> sig.msg]
      [] sig.class = "ExecError"     -> sig
      [] OTHER                       -> [class |-> "panic", name |-> "", msg |-> sig.msg]

\* The walk of the root is over or a panic left it: Execute returns.
finish(c, s, K) ==
    Out([c EXCEPT !.pc = "done", !.result = errRecover(c.sig), !.sig = NoPanic], s, K)

(***************************************************************************)
(* The operation an execution performs next, and the step that performs it.*)
(***************************************************************************)
Kind(c) ==
    IF c.pc = "ready" THEN "Execute"
    ELSE IF c.pc = "done" THEN "none"
    ELSE IF c.stack = <<>> THEN "ErrRecover"
    ELSE LET f == Top(c) IN
         CASE f.k = "list" ->
                IF c.sig.class # "none" \/ f.i > Len(f.nodes) THEN "ReturnList"
                ELSE f.nodes[f.i].type
           [] f.k = "ifwith" -> "ExitIfWith"
           [] f.k = "iter"   -> "ExitIteration"
           [] f.k = "call"   -> "ReturnTemplate"
           [] f.k = "range"  ->
                IF c.sig.class # "none" \/ f.i > Len(f.items) THEN "ExitRange"
                ELSE "RangeNext"

\* walk of child node of list frame f: c1 is the list's loop moved on.
walkNode(c1, s, K, f, node) ==
    CASE node.type = "Text"     -> walkText(c1, s, K, node)
      [] node.type = "Action"   -> walkAction(c1, s, K, f.dot, node)
      [] node.type = "Break"    -> Out([c1 EXCEPT !.sig = walkBreak], s, K)
      [] node.type = "Continue" -> Out([c1 EXCEPT !.sig = walkContinue], s, K)
      [] node.type = "Comment"  -> Out(c1, s, K)
      [] node.type \in {"If", "With"} -> walkIfOrWith(c1, s, K, f.dot, node)
      [] node.type = "Range"    -> walkRange(c1, s, K, f.dot, node)
      [] node.type = "Template" -> walkTemplate(c1, s, K, f.dot, node)
      [] OTHER -> Out([c1 EXCEPT !.sig = errorf(s, "unknown node")], s, K)

\* The list's loop moves on to its next child, then the child is walked.
walk(c, s, K) ==
    walkNode([c EXCEPT !.stack[Len(c.stack)].i = Top(c).i + 1], s, K, Top(c),
             Top(c).nodes[Top(c).i])

NodeKinds == {"Text", "Action", "Break", "Continue", "Comment", "If", "With", "Range", "Template"}

\* Operation k on c0, the control record with the operation noted.
Perform(k, c0, s, K) ==
    CASE k = "Execute"        -> execute(c0, s, K)
      [] k = "ErrRecover"     -> finish(c0, s, K)
      [] k = "ReturnList"     -> returnList(c0, s, K)
      [] k = "ExitIfWith"     -> exitIfWith(c0, s, K)
      [] k = "ExitIteration"  -> exitIteration(c0, s, K)
      [] k = "ExitRange"      -> exitRange(c0, s, K)
      [] k = "RangeNext"      -> rangeNext(c0, s, K)
      [] k = "ReturnTemplate" -> returnTemplate(c0, s, K)
      [] OTHER                -> walk(c0, s, K)

\* The next operation of an execution, performed.
Step(c, s, K) == Perform(Kind(c), Saw(c, s, Kind(c)), s, K)


(***************************************************************************)
(* The inputs: documents, template sets, jobs.                             *)
(***************************************************************************)
\* {"Array":[1,2],"Number":2,"Bool":true,"Name":"x","Null":null,"Empty":[],"Object":{"a":1,"b":2}}
BaseDoc ==
    Obj(<<KV("Array", Arr(<<NumVal(1), NumVal(2)>>)), KV("Number", NumVal(2)),
          KV("Bool", BoolVal(TRUE)), KV("Name", StrVal(<<"x">>)), KV("Null", NullVal),
          KV("Empty", Arr(<<>>)),
          KV("Object", Obj(<<KV("a", NumVal(1)), KV("b", NumVal(2))>>))>>)

RECURSIVE NestDoc(_)
\* {"B":1} inside n objects {"A": ...}
NestDoc(n) ==
    IF n = 0 THEN Obj(<<KV("B", NumVal(1))>>) ELSE Obj(<<KV("A", NestDoc(n - 1))>>)

\* {"Array":[3,1],"Name":"y","Object":{"a":5}}
AltDoc ==
    Obj(<<KV("Array", Arr(<<NumVal(3), NumVal(1)>>)), KV("Name", StrVal(<<"y">>)),
          KV("Object", Obj(<<KV("a", NumVal(5))>>))>>)

\* {"Object":{"b":1,"a":2}}
OrderDoc == Obj(<<KV("Object", Obj(<<KV("b", NumVal(1)), KV("a", NumVal(2))>>))>>)

\* The values of .V in the documents of the truth tests: null, false, true,
\* 0, 1, "", "x", [], [1], {}, {"a":1}, [ ] and { }; and no .V at all.
TruthValues ==
    {Absent, NullVal, BoolVal(FALSE), BoolVal(TRUE), NumVal(0), NumVal(1),
     StrVal(<<>>), StrVal(<<"x">>), Arr(<<>>), Arr(<<NumVal(1)>>), Obj(<<>>),
     Obj(<<KV("a", NumVal(1))>>), ArrRaw(<<"[", " ", "]">>, <<>>),
     ObjRaw(<<"{", " ", "}">>, <<>>)}

\* {"V": v}, or {"W":1} for the absent v
TruthDoc(v) == IF v = Absent THEN Obj(<<KV("W", NumVal(1))>>) ELSE Obj(<<KV("V", v)>>)

\* {"N":42,"F":42.0,"S":"42","T":"x"}
CompareDoc ==
    Obj(<<KV("N", NumVal(42)),
          KV("F", [type |-> "Number", raw |-> <<"42.0">>, str |-> <<>>, num |-> 42,
                   kids |-> <<>>]),
          KV("S", StrVal(<<"42">>)), KV("T", StrVal(<<"x">>))>>)

\* {"V": v, "W": 7}
IfWithDoc(v) == Obj(<<KV("V", v), KV("W", NumVal(7))>>)

\* [1,2]
ArrayDoc == Arr(<<NumVal(1), NumVal(2)>>)

\* Inputs Execute must refuse: 42, "x", null, true, the empty input, a blank, x{
ScalarInputs ==
    {[text |-> <<"42">>, kids |-> <<>>], [text |-> <<"\"", "x", "\"">>, kids |-> <<>>],
     [text |-> <<"null">>, kids |-> <<>>], [text |-> <<"true">>, kids |-> <<>>],
     [text |-> <<>>, kids |-> <<>>], [text |-> <<" ">>, kids |-> <<>>],
     [text |-> <<"x", "{">>, kids |-> <<>>]}

\* Malformed inputs that start like a container: {"Name": and [1,
TruncatedInputs ==
    {[text |-> <<"{", "\"", "Name", "\"", ":">>, kids |-> <<>>],
     [text |-> <<"[", "1", ",">>, kids |-> <<NumVal(1)>>]}

\* Shorthands for the trees below.
F(name) == FieldNode(<<name>>)

V(name) == VariableNode(<<name>>)

Fn(name) == IdentifierNode(name)

L(nodes) == ListNode(nodes)

T(atom) == TextNode(<<atom>>)

Show(arg) == ActionNode(Pipe1(<<arg>>))

Set(root, others, funcs, missingKey) ==
    [tmpls |-> [n \in {"main"} \cup DOMAIN others |->
                    IF n = "main" THEN root ELSE others[n]],
     funcs |-> funcs, missingKey |-> missingKey]

NoTemplates == [n \in {} |-> NilList]

NoFuncs == [n \in {} |-> 0]

Plain(root) == Set(root, NoTemplates, NoFuncs, "mapInvalid")


(***************************************************************************)
(* Template trees, as the parser or a caller of AddParseTree builds them.  *)
(***************************************************************************)
\* a{{if $x := .Number}}{{$x}}{{end}}{{$x}}b
IfScope ==
    L(<<T("a"), IfNode(Decl1(<<"$x">>, <<F("Number")>>), L(<<Show(V("$x"))>>), NilList),
        Show(V("$x")), T("b")>>)

\* {{with $y := .Object}}{{.a}}{{/* c */}}{{end}}{{$y}}
WithScope ==
    L(<<WithNode(Decl1(<<"$y">>, <<F("Object")>>), L(<<Show(F("a")), CommentNode>>), NilList),
        Show(V("$y"))>>)

\* {{with .Missing}}y{{else}}n{{end}}{{if .Null}}t{{end}}z
WithElse ==
    L(<<WithNode(Pipe1(<<F("Missing")>>), L(<<T("y")>>), L(<<T("n")>>)),
        IfNode(Pipe1(<<F("Null")>>), L(<<T("t")>>), NilList), T("z")>>)

\* {{if .Bool}}{{$q := .Name}}{{nope .Name}}{{end}}b
IfFault ==
    L(<<IfNode(Pipe1(<<F("Bool")>>),
               L(<<ActionNode(Decl1(<<"$q">>, <<F("Name")>>)),
                   ActionNode(Pipe1(<<Fn("nope"), F("Name")>>))>>), NilList),
        T("b")>>)

\* {{range $i, $e := .Array}}{{$e}}{{if $e}}{{break}}{{end}}x{{else}}none{{end}}z{{$e}}
RangeBreak ==
    L(<<RangeNode(Decl1(<<"$i", "$e">>, <<F("Array")>>),
                  L(<<Show(V("$e")), IfNode(Pipe1(<<V("$e")>>), L(<<BreakNode>>), NilList),
                      T("x")>>),
                  L(<<T("none")>>)),
        T("z"), Show(V("$e"))>>)

\* {{range $e := .Array}}{{$e}}{{$z := $e}}{{continue}}x{{end}}z
RangeContinue ==
    L(<<RangeNode(Decl1(<<"$e">>, <<F("Array")>>),
                  L(<<Show(V("$e")), ActionNode(Decl1(<<"$z">>, <<V("$e")>>)), ContinueNode,
                      T("x")>>),
                  NilList),
        T("z")>>)

\* {{range .Array}}{{range $.Array}}{{break}}x{{else}}e{{end}}{{.}}{{end}}
NestedBreak ==
    L(<<RangeNode(Pipe1(<<F("Array")>>),
                  L(<<RangeNode(Pipe1(<<VariableNode(<<"$", "Array">>)>>),
                                L(<<BreakNode, T("x")>>), L(<<T("e")>>)),
                      Show(DotNode)>>),
                  NilList)>>)

\* {{range .Array}}{{end}}z
RangeEmptyBody == L(<<RangeNode(Pipe1(<<F("Array")>>), L(<<>>), NilList), T("z")>>)

\* {{range .Empty}}x{{else}}e{{end}}
RangeElse == L(<<RangeNode(Pipe1(<<F("Empty")>>), L(<<T("x")>>), L(<<T("e")>>))>>)

\* {{range $n := .Number}}{{$n}}{{end}}
RangeNumber ==
    L(<<RangeNode(Decl1(<<"$n">>, <<F("Number")>>), L(<<Show(V("$n"))>>), NilList)>>)

\* {{range $k, $v := .Object}}{{$k}}{{$v}}{{end}}
RangeObject ==
    L(<<RangeNode(Decl1(<<"$k", "$v">>, <<F("Object")>>),
                  L(<<Show(V("$k")), Show(V("$v"))>>), NilList)>>)

\* {{range .Name}}{{.}}{{end}}{{range .Bool}}{{end}}
RangeString ==
    L(<<RangeNode(Pipe1(<<F("Name")>>), L(<<Show(DotNode)>>), NilList),
        RangeNode(Pipe1(<<F("Bool")>>), L(<<>>), NilList)>>)

\* a{{range .Array}}{{.}}{{template "nope"}}{{end}}b
RangeFault ==
    L(<<T("a"),
        RangeNode(Pipe1(<<F("Array")>>), L(<<Show(DotNode), TemplateNode("nope", NilPipe)>>),
                  NilList),
        T("b")>>)

\* {{range .Array}}{{range $.Array}}{{.}}{{template "nope"}}{{end}}x{{end}}b
NestedFault ==
    L(<<RangeNode(Pipe1(<<F("Array")>>),
                  L(<<RangeNode(Pipe1(<<VariableNode(<<"$", "Array">>)>>),
                                L(<<Show(DotNode), TemplateNode("nope", NilPipe)>>), NilList),
                      T("x")>>),
                  NilList),
        T("b")>>)

\* a{{range .V}}x{{else}}e{{end}}b
RangeV == L(<<T("a"), RangeNode(Pipe1(<<F("V")>>), L(<<T("x")>>), L(<<T("e")>>)), T("b")>>)

\* {{range $i, $e := .Array}}{{$i}}{{$e}}{{$z := $e}}{{end}}{{range $c := .Name}}{{$c}}{{end}}
RangeDeclare ==
    L(<<RangeNode(Decl1(<<"$i", "$e">>, <<F("Array")>>),
                  L(<<Show(V("$i")), Show(V("$e")), ActionNode(Decl1(<<"$z">>, <<V("$e")>>))>>),
                  NilList),
        RangeNode(Decl1(<<"$c">>, <<F("Name")>>), L(<<Show(V("$c"))>>), NilList)>>)

\* {{$i := 7}}{{$x := 8}}{{range $i, $x = .Array}}{{$i}}{{$x}}{{end}}{{$i}}{{$x}}
\* {{range $x = .Array}}{{break}}{{end}}{{$x}}{{range $x = .Empty}}x{{end}}{{$x}}
RangeAssign ==
    L(<<ActionNode(Decl1(<<"$i">>, <<NumberNode(7)>>)),
        ActionNode(Decl1(<<"$x">>, <<NumberNode(8)>>)),
        RangeNode(Assign1(<<"$i", "$x">>, <<F("Array")>>),
                  L(<<Show(V("$i")), Show(V("$x"))>>), NilList),
        Show(V("$i")), Show(V("$x")),
        RangeNode(Assign1(<<"$x">>, <<F("Array")>>), L(<<BreakNode>>), NilList),
        Show(V("$x")),
        RangeNode(Assign1(<<"$x">>, <<F("Empty")>>), L(<<T("x")>>), NilList),
        Show(V("$x"))>>)

\* {"Array":[3,1],"Empty":[]}
AssignDoc == Obj(<<KV("Array", Arr(<<NumVal(3), NumVal(1)>>)), KV("Empty", Arr(<<>>))>>)

\* a{{range $n := .V}}{{$n}}{{.}}{{else}}e{{end}}b
RangeCount ==
    L(<<T("a"),
        RangeNode(Decl1(<<"$n">>, <<F("V")>>), L(<<Show(V("$n")), Show(DotNode)>>),
                  L(<<T("e")>>)),
        T("b")>>)

\* a{{range $i, $n := .V}}x{{else}}e{{end}}b
RangeCountTwo ==
    L(<<T("a"),
        RangeNode(Decl1(<<"$i", "$n">>, <<F("V")>>), L(<<T("x")>>), L(<<T("e")>>)),
        T("b")>>)

\* The number -1 of a document.
MinusOne == [type |-> "Number", raw |-> <<"-1">>, str |-> <<>>, num |-> 0 - 1, kids |-> <<>>]

\* The counts of the ranges over a Number.
Counts == {MinusOne, NumVal(0), NumVal(1), NumVal(3)}

\* {{range .Array}}{{.}}{{range $.Empty}}x{{else}}{{break}}{{end}}y{{end}}z, and
\* the same with {{continue}}
InElse(node) ==
    L(<<RangeNode(Pipe1(<<F("Array")>>),
                  L(<<Show(DotNode),
                      RangeNode(Pipe1(<<VariableNode(<<"$", "Empty">>)>>),
                                L(<<T("x")>>), L(<<node>>)),
                      T("y")>>),
                  NilList),
        T("z")>>)

\* {{range .}}{{.}}{{end}}
RangeDot == L(<<RangeNode(Pipe1(<<DotNode>>), L(<<Show(DotNode)>>), NilList)>>)

\* d{{if .A}}{{template "main" .A}}{{else}}{{template "nope"}}{{end}}
Descend ==
    L(<<T("d"), IfNode(Pipe1(<<F("A")>>), L(<<TemplateNode("main", Pipe1(<<F("A")>>))>>),
                       L(<<TemplateNode("nope", NilPipe)>>))>>)

\* r{{template "main" .}}
Runaway == L(<<T("r"), TemplateNode("main", Pipe1(<<DotNode>>))>>)

\* {{template "t" .}}  with t:  t{{template "main" .}}
MutualMain == L(<<TemplateNode("t", Pipe1(<<DotNode>>))>>)

MutualT == L(<<T("t"), TemplateNode("main", Pipe1(<<DotNode>>))>>)

\* {{$v := .Name}}{{template "t" .Object}}{{$v}}  with t:  {{.a}}{{$w := .b}}{{$w}}
CallScope ==
    L(<<ActionNode(Decl1(<<"$v">>, <<F("Name")>>)), TemplateNode("t", Pipe1(<<F("Object")>>)),
        Show(V("$v"))>>)

CallScopeT == L(<<Show(F("a")), ActionNode(Decl1(<<"$w">>, <<F("b")>>)), Show(V("$w"))>>)

\* {{$v := .Name}}{{template "t" .}}c  with t:  {{$v}}
CallNoInherit ==
    L(<<ActionNode(Decl1(<<"$v">>, <<F("Name")>>)), TemplateNode("t", Pipe1(<<DotNode>>)),
        T("c")>>)

CallNoInheritT == L(<<Show(V("$v"))>>)

\* {{template "t" $p := .Object}}{{$p.a}}  with t as for CallScope
CallDecl ==
    L(<<TemplateNode("t", Decl1(<<"$p">>, <<F("Object")>>)), Show(VariableNode(<<"$p", "a">>))>>)

\* {{$v := .Name}}{{template "t" $v = .Object}}{{$v.a}}  with t as for CallScope
CallAssign ==
    L(<<ActionNode(Decl1(<<"$v">>, <<F("Name")>>)),
        TemplateNode("t", Assign1(<<"$v">>, <<F("Object")>>)),
        Show(VariableNode(<<"$v", "a">>))>>)

\* {{.Array | len}}{{.Name | lower}}
Piped ==
    L(<<ActionNode(PipeNode(<<>>, FALSE, <<CommandNode(<<F("Array")>>), CommandNode(<<Fn("len")>>)>>)),
        ActionNode(PipeNode(<<>>, FALSE, <<CommandNode(<<F("Name")>>), CommandNode(<<Fn("lower")>>)>>))>>)

\* {{if .V}}t{{else}}f{{end}}{{with .V}}t{{else}}f{{end}}{{not .V}}{{and .V 1}}{{or .V 0}}
Truth ==
    L(<<IfNode(Pipe1(<<F("V")>>), L(<<T("t")>>), L(<<T("f")>>)),
        WithNode(Pipe1(<<F("V")>>), L(<<T("t")>>), L(<<T("f")>>)),
        ActionNode(Pipe1(<<Fn("not"), F("V")>>)),
        ActionNode(Pipe1(<<Fn("and"), F("V"), NumberNode(1)>>)),
        ActionNode(Pipe1(<<Fn("or"), F("V"), NumberNode(0)>>))>>)

\* {{and .Null .Missing}}{{or .Name .Missing}}{{and .Name .Number}}{{or .Null .Empty}}
ShortCut ==
    L(<<ActionNode(Pipe1(<<Fn("and"), F("Null"), F("Missing")>>)),
        ActionNode(Pipe1(<<Fn("or"), F("Name"), F("Missing")>>)),
        ActionNode(Pipe1(<<Fn("and"), F("Name"), F("Number")>>)),
        ActionNode(Pipe1(<<Fn("or"), F("Null"), F("Empty")>>))>>)

\* {{and .Name .Missing}}
AndThrough == L(<<ActionNode(Pipe1(<<Fn("and"), F("Name"), F("Missing")>>))>>)

\* {{or .Null .Missing}}
OrThrough == L(<<ActionNode(Pipe1(<<Fn("or"), F("Null"), F("Missing")>>))>>)

\* {{eq .N .F}}{{eq .N .S}}{{eq .S .N}}{{eq .N .T}}{{eq .T .N}}{{eq .S .S}}
\* {{ne .N .S}}{{ne .S .N}}{{ne .N .F}}{{ne .N 42}}{{ne .S "42"}}
Compare ==
    L(<<ActionNode(Pipe1(<<Fn("eq"), F("N"), F("F")>>)),
        ActionNode(Pipe1(<<Fn("eq"), F("N"), F("S")>>)),
        ActionNode(Pipe1(<<Fn("eq"), F("S"), F("N")>>)),
        ActionNode(Pipe1(<<Fn("eq"), F("N"), F("T")>>)),
        ActionNode(Pipe1(<<Fn("eq"), F("T"), F("N")>>)),
        ActionNode(Pipe1(<<Fn("eq"), F("S"), F("S")>>)),
        ActionNode(Pipe1(<<Fn("ne"), F("N"), F("S")>>)),
        ActionNode(Pipe1(<<Fn("ne"), F("S"), F("N")>>)),
        ActionNode(Pipe1(<<Fn("ne"), F("N"), F("F")>>)),
        ActionNode(Pipe1(<<Fn("ne"), F("N"), NumberNode(42)>>)),
        ActionNode(Pipe1(<<Fn("ne"), F("S"), StringNode(<<"42">>)>>))>>)

\* The accesses of a path that is not in the data:
\* {{.Object.zz}}, {{$v := .Object}}{{$v.zz}}, {{(.Object).zz}},
\* {{<backquote>zz<backquote>}}, {{gjson "zz"}}, {{index .Object "zz"}}
MissField == <<Show(FieldNode(<<"Object", "zz">>))>>

MissVariable ==
    <<ActionNode(Decl1(<<"$v">>, <<F("Object")>>)), Show(VariableNode(<<"$v", "zz">>))>>

MissChain == <<Show(ChainNode(Pipe1(<<F("Object")>>), <<"zz">>))>>

MissBackquote == <<Show(StringNode(<<Backquote, "zz", Backquote>>))>>

MissGjson == <<ActionNode(Pipe1(<<Fn("gjson"), StringNode(<<"zz">>)>>))>>

MissIndex == <<ActionNode(Pipe1(<<Fn("index"), F("Object"), StringNode(<<"zz">>)>>))>>

MissingAccesses == {MissField, MissVariable, MissChain, MissBackquote, MissGjson, MissIndex}

\* a, the access, b
Missing(access) == L(<<T("a")>> \o access \o <<T("b")>>)

\* {{$x := 1}}{{$z := 5}}{{if .Bool}}{{$z = 6}}{{$x := 3}}{{$x = 4}}{{$x}}{{end}}{{$x}}{{$z}}
Variables ==
    L(<<ActionNode(Decl1(<<"$x">>, <<NumberNode(1)>>)),
        ActionNode(Decl1(<<"$z">>, <<NumberNode(5)>>)),
        IfNode(Pipe1(<<F("Bool")>>),
               L(<<ActionNode(Assign1(<<"$z">>, <<NumberNode(6)>>)),
                   ActionNode(Decl1(<<"$x">>, <<NumberNode(3)>>)),
                   ActionNode(Assign1(<<"$x">>, <<NumberNode(4)>>)),
                   Show(V("$x"))>>),
               NilList),
        Show(V("$x")), Show(V("$z"))>>)

\* a{{$y = 1}}b, of a tree that was not parsed
AssignUndefined == L(<<T("a"), ActionNode(Assign1(<<"$y">>, <<NumberNode(1)>>)), T("b")>>)

\* The accesses that are no function: .Name, $, $.Name, <backquote>Name<backquote>, (.Name)
Accesses ==
    {F("Name"), V("$"), VariableNode(<<"$", "Name">>),
     StringNode(<<Backquote, "Name", Backquote>>), Pipe1(<<F("Name")>>)}

\* The fields whose value is piped into an access: one that is there, one that is not.
PipedFields == {"Number", "Missing"}

\* a{{access 1}}b
WithArgument(access) == L(<<T("a"), ActionNode(Pipe1(<<access, NumberNode(1)>>)), T("b")>>)

\* a{{.field | access}}b
PipedInto(field, access) ==
    L(<<T("a"),
        ActionNode(PipeNode(<<>>, FALSE, <<CommandNode(<<F(field)>>), CommandNode(<<access>>)>>)),
        T("b")>>)

\* index .Array 9, a pipeline that faults on every document of the model
BadPipe == Pipe1(<<Fn("index"), F("Array"), NumberNode(9)>>)

\* a{{template "nope" index .Array 9}}b
CallFaultUndefined == L(<<T("a"), TemplateNode("nope", BadPipe), T("b")>>)

\* d{{if .A}}{{template "main" .A}}{{else}}{{template "main" index .Array 9}}{{end}}
DescendFault ==
    L(<<T("d"), IfNode(Pipe1(<<F("A")>>), L(<<TemplateNode("main", Pipe1(<<F("A")>>))>>),
                       L(<<TemplateNode("main", BadPipe)>>))>>)

\* {{if .V}}{{.W}}{{else}}f{{end}}{{with .V}}{{.}}{{else}}{{.W}}{{end}}
\* {{if .V}}t{{end}}{{with $w := .V}}{{$w}}{{end}}z
IfWith ==
    L(<<IfNode(Pipe1(<<F("V")>>), L(<<Show(F("W"))>>), L(<<T("f")>>)),
        WithNode(Pipe1(<<F("V")>>), L(<<Show(DotNode)>>), L(<<Show(F("W"))>>)),
        IfNode(Pipe1(<<F("V")>>), L(<<T("t")>>), NilList),
        WithNode(Decl1(<<"$w">>, <<F("V")>>), L(<<Show(V("$w"))>>), NilList),
        T("z")>>)

\* {{foo}}{{lower .Name}}
CallFoo == L(<<Show(Fn("foo")), ActionNode(Pipe1(<<Fn("lower"), F("Name")>>))>>)

\* a{{print foo}}b
PrintFoo == L(<<T("a"), ActionNode(Pipe1(<<Fn("print"), Fn("foo")>>)), T("b")>>)

\* A string head token that is one backquote, then b.
BackquoteHead == L(<<ActionNode(Pipe1(<<StringNode(<<Backquote>>)>>)), T("b")>>)

\* {{<backquote>Object.a<backquote>}}{{gjson "Name"}}{{len .Array}}{{index .Array 1}}
Paths ==
    L(<<ActionNode(Pipe1(<<StringNode(<<Backquote, "Object", ".", "a", Backquote>>)>>)),
        ActionNode(Pipe1(<<Fn("gjson"), StringNode(<<"Name">>)>>)),
        ActionNode(Pipe1(<<Fn("len"), F("Array")>>)),
        ActionNode(Pipe1(<<Fn("index"), F("Array"), NumberNode(1)>>))>>)

\* {{if and .Bool (not .Null)}}{{or .Null .Name}}{{end}}{{eq .Number 2}}{{ne .Name "x"}}
Logic ==
    L(<<IfNode(Pipe1(<<Fn("and"), F("Bool"), Pipe1(<<Fn("not"), F("Null")>>)>>),
               L(<<ActionNode(Pipe1(<<Fn("or"), F("Null"), F("Name")>>))>>), NilList),
        ActionNode(Pipe1(<<Fn("eq"), F("Number"), NumberNode(2)>>)),
        ActionNode(Pipe1(<<Fn("ne"), F("Name"), StringNode(<<"x">>)>>))>>)

\* a{{break}}b and a{{continue}}b, outside any range
TopBreak == L(<<T("a"), BreakNode, T("b")>>)

TopContinue == L(<<T("a"), ContinueNode, T("b")>>)

\* x{{.Name}}{{.Missing}}y
Fields == L(<<T("x"), Show(F("Name")), Show(F("Missing")), T("y")>>)


(***************************************************************************)
(* Jobs: a parsed template set and the input bytes of one execution.       *)
(***************************************************************************)
Job(set, data) == [set |-> set, data |-> data]

OneOther(name, root) == [n \in {name} |-> root]

SomeFuncs == [n \in {"foo", "lower"} |-> IF n = "foo" THEN 0 ELSE 1]

BlockJobs ==
    {Job(Plain(root), Bytes(BaseDoc)) :
        root \in {IfScope, WithScope, WithElse, IfFault, RangeBreak, RangeContinue,
                  NestedBreak, RangeEmptyBody, RangeElse, RangeNumber, RangeObject,
                  RangeString, RangeFault, Paths, Logic, Fields}}
    \cup {Job(Plain(RangeDot), Bytes(ArrayDoc)),
          Job(Plain(RangeObject), Bytes(OrderDoc)),
          Job(Plain(NestedFault), Bytes(BaseDoc)),
          Job(Plain(RangeDeclare), Bytes(AltDoc)),
          Job(Plain(RangeAssign), Bytes(AssignDoc)),
          Job(Plain(InElse(BreakNode)), Bytes(BaseDoc)),
          Job(Plain(InElse(ContinueNode)), Bytes(BaseDoc)),
          Job(Plain(RangeContinue), Bytes(AltDoc)),
          Job(Set(Fields, NoTemplates, NoFuncs, "mapError"), Bytes(BaseDoc)),
          Job(Plain(NilList), Bytes(BaseDoc))}

CallJobs ==
    {Job(Plain(Descend), Bytes(NestDoc(n))) : n \in 0..(DepthCeiling + 1)}
    \cup {Job(Plain(Runaway), Bytes(BaseDoc)),
          Job(Set(MutualMain, OneOther("t", MutualT), NoFuncs, "mapInvalid"), Bytes(BaseDoc)),
          Job(Set(CallScope, OneOther("t", CallScopeT), NoFuncs, "mapInvalid"), Bytes(BaseDoc)),
          Job(Set(CallDecl, OneOther("t", CallScopeT), NoFuncs, "mapInvalid"), Bytes(BaseDoc)),
          Job(Set(CallAssign, OneOther("t", CallScopeT), NoFuncs, "mapInvalid"), Bytes(BaseDoc)),
          Job(Set(CallNoInherit, OneOther("t", CallNoInheritT), NoFuncs, "mapInvalid"),
              Bytes(BaseDoc))}

FuncJobs ==
    {Job(Set(root, NoTemplates, SomeFuncs, "mapInvalid"), Bytes(BaseDoc)) :
        root \in {CallFoo, PrintFoo, Piped}}
    \cup {Job(Plain(root), Bytes(BaseDoc)) : root \in {BackquoteHead, TopBreak, TopContinue}}

\* The values of the missingkey option.
Policies == {"mapInvalid", "mapZeroValue", "mapError"}

MissingJobs ==
    {Job(Set(Missing(access), NoTemplates, NoFuncs, policy), Bytes(BaseDoc)) :
        access \in MissingAccesses, policy \in Policies}

VariableJobs == {Job(Plain(root), Bytes(BaseDoc)) : root \in {Variables, AssignUndefined}}

RangeJobs == {Job(Plain(RangeV), Bytes(TruthDoc(v))) : v \in TruthValues}

ArgumentJobs ==
    {Job(Plain(WithArgument(access)), Bytes(BaseDoc)) : access \in Accesses}
    \cup {Job(Plain(PipedInto(field, access)), Bytes(BaseDoc)) :
             field \in PipedFields, access \in Accesses}

CallOrderJobs ==
    {Job(Plain(DescendFault), Bytes(NestDoc(n))) : n \in 0..DepthCeiling}
    \cup {Job(Plain(CallFaultUndefined), Bytes(BaseDoc))}

CountJobs ==
    {Job(Plain(root), Bytes(TruthDoc(v))) : root \in {RangeCount, RangeCountTwo}, v \in Counts}

IfWithJobs == {Job(Plain(IfWith), Bytes(IfWithDoc(v))) : v \in {NumVal(0), NumVal(1)}}

CompareJobs == {Job(Plain(Compare), Bytes(CompareDoc))}

LogicJobs ==
    {Job(Set(root, NoTemplates, NoFuncs, "mapError"), Bytes(BaseDoc)) :
        root \in {ShortCut, AndThrough, OrThrough}}

TruthJobs == {Job(Plain(Truth), Bytes(TruthDoc(v))) : v \in TruthValues}

InputJobs == {Job(Plain(Fields), data) : data \in ScalarInputs \cup TruncatedInputs}

Jobs == BlockJobs \cup CallJobs \cup FuncJobs \cup InputJobs \cup TruthJobs \cup LogicJobs
        \cup CompareJobs \cup MissingJobs \cup VariableJobs
        \cup RangeJobs \cup ArgumentJobs \cup CallOrderJobs
        \cup CountJobs \cup IfWithJobs

(***************************************************************************)
(* Executions.  Execute allocates the state struct of its execution, so    *)
(* the struct of execution e is its own.                                   *)
(***************************************************************************)
\* One state struct that every execution uses.
stateShared(e) == 1

stateOf(e) == e

\* An execution that has not begun: Execute(wr, data) on template "main".
Start(data, wr) ==
    [pc |-> "ready", main |-> "main", data |-> data, wr |-> wr, stack |-> <<>>,
     sig |-> NoPanic, result |-> NoResult, ev |-> Event("none", NoPanic, 0)]

\* A sink nothing was written to; its failAt-th Write fails (0: none does).
NewSink(failAt) == [out |-> <<>>, calls |-> 0, failAt |-> failAt]

Init ==
    \E j \in Jobs, n \in 0..MaxFailAt :
        /\ tset = j.set
        /\ exec = [e \in {1} |-> Start(j.data, e)]
        /\ heap = [e \in {1} |-> NoState]
        /\ sink = [e \in {1} |-> NewSink(n)]

\* Execution e performs its next operation, which is of kind k.
Do(e, k) ==
    /\ Kind(exec[e]) = k
    /\ \E r \in {Step(exec[e], heap[stateOf(e)], sink)} :
       /\ exec' = [exec EXCEPT ![e] = r.c]
       /\ heap' = [heap EXCEPT ![stateOf(e)] = r.s]
       /\ sink' = r.K
       /\ UNCHANGED tset

Execute == \E e \in DOMAIN exec : Do(e, "Execute")

WalkText == \E e \in DOMAIN exec : Do(e, "Text")

WalkAction == \E e \in DOMAIN exec : Do(e, "Action")

WalkBreak == \E e \in DOMAIN exec : Do(e, "Break")

WalkContinue == \E e \in DOMAIN exec : Do(e, "Continue")

WalkComment == \E e \in DOMAIN exec : Do(e, "Comment")

WalkIf == \E e \in DOMAIN exec : Do(e, "If")

WalkWith == \E e \in DOMAIN exec : Do(e, "With")

WalkRange == \E e \in DOMAIN exec : Do(e, "Range")

WalkTemplate == \E e \in DOMAIN exec : Do(e, "Template")

RangeNext == \E e \in DOMAIN exec : Do(e, "RangeNext")

ExitIteration == \E e \in DOMAIN exec : Do(e, "ExitIteration")

ExitRange == \E e \in DOMAIN exec : Do(e, "ExitRange")

ExitIfWith == \E e \in DOMAIN exec : Do(e, "ExitIfWith")

ReturnList == \E e \in DOMAIN exec : Do(e, "ReturnList")

ReturnTemplate == \E e \in DOMAIN exec : Do(e, "ReturnTemplate")

ErrRecover == \E e \in DOMAIN exec : Do(e, "ErrRecover")

Next ==
    \/ Execute
    \/ WalkText
    \/ WalkAction
    \/ WalkBreak
    \/ WalkContinue
    \/ WalkComment
    \/ WalkIf
    \/ WalkWith
    \/ WalkRange
    \/ WalkTemplate
    \/ RangeNext
    \/ ExitIteration
    \/ ExitRange
    \/ ExitIfWith
    \/ ReturnList
    \/ ReturnTemplate
    \/ ErrRecover

Spec == Init /\ [][Next]_vars


\* The same, with the scheduler's guarantee that a running goroutine goes on running.
FairSpec == Spec /\ WF_vars(Next)

(***************************************************************************)
(* Two executions of one parsed set, concurrently, on different data and   *)
(* different sinks.                                                        *)
(***************************************************************************)
\* a{{/* c */}}{{with $o := .Object}}{{.a}}{{end}}
\* {{range $e := .Array}}{{if eq $e 1}}{{continue}}{{end}}{{$e}}{{break}}{{end}}
\* {{template "t" .Name}}  with t:  {{.}}
Mixed ==
    L(<<T("a"), CommentNode,
        WithNode(Decl1(<<"$o">>, <<F("Object")>>), L(<<Show(F("a"))>>), NilList),
        RangeNode(Decl1(<<"$e">>, <<F("Array")>>),
                  L(<<IfNode(Pipe1(<<Fn("eq"), V("$e"), NumberNode(1)>>), L(<<ContinueNode>>),
                             NilList),
                      Show(V("$e")), BreakNode>>),
                  NilList),
        TemplateNode("t", Pipe1(<<F("Name")>>))>>)

MixedT == L(<<Show(DotNode)>>)

InitConc ==
    \E n \in 0..MaxFailAt :
        /\ tset = Set(Mixed, OneOther("t", MixedT), NoFuncs, "mapInvalid")
        /\ exec = [e \in {1, 2} |-> Start(IF e = 1 THEN Bytes(BaseDoc) ELSE Bytes(AltDoc), e)]
        /\ heap = [e \in {1, 2} |-> NoState]
        /\ sink = [e \in {1, 2} |-> NewSink(IF e = 1 THEN n ELSE 0)]

SpecConc == InitConc /\ [][Next]_vars

(***************************************************************************)
(* Vocabulary of the properties.                                           *)
(***************************************************************************)
\* The state struct and the sink of execution e.
StateOf(e) == heap[stateOf(e)]

SinkOf(e) == sink[exec[e].wr]

\* Execution e takes the step from this state to the next.
Took(e) == exec'[e] # exec[e]

Done(e) == exec[e].pc = "done"

\* The frames of c but the innermost.
Outer(c) == SubSeq(c.stack, 1, Len(c.stack) - 1)

\* An execution fault, as opposed to the two loop signals.
IsFault(sig) == sig.class \in {"ExecError", "writeError", "runtime.Error"}

\* A Write on the sink has failed.
SinkFailed(K) == K.failAt > 0 /\ K.calls >= K.failAt

IsPrefix(a, b) == Len(a) <= Len(b) /\ SubSeq(b, 1, Len(a)) = a


(***************************************************************************)
(* Scope restoration.                                                      *)
(***************************************************************************)
\* The stack length a block frame captured when the block was entered.
EntryMark(f) == IF f.k = "range" THEN f.mark0 ELSE f.mark

\* The variables at positions above m whose name no variable at or below m has.
DeclaredAbove(stack, m) ==
    {stack[i].name : i \in (m + 1)..Len(stack)} \ {stack[j].name : j \in 1..m}

\* C1: when an if, a with or a range block exits - normally, by Break, by
\* Continue or with a fault passing through - the variable stack has again
\* the length captured when the block was entered, and a name declared in
\* the block (and not outside it) no longer resolves: "undefined variable".
C1_ScopeRestored ==
    [][\A e \in DOMAIN exec :
         Took(e) /\ Kind(exec[e]) \in {"ExitIfWith", "ExitRange"} =>
             LET m == EntryMark(Top(exec[e])) IN
             /\ Len(StateOf(e)'.vars) = m
             /\ \A name \in DeclaredAbove(StateOf(e).vars, m) :
                    varValue(StateOf(e)', name).sig
                        = errorf(StateOf(e)', "undefined variable")]_vars

\* A range left by Break, its loop variables gone.
C1_Witness ==
    \E e \in DOMAIN exec :
        /\ exec[e].ev.op = "ExitRange"
        /\ exec[e].ev.sig = walkBreak
        /\ exec[e].ev.vlen > Len(StateOf(e).vars)
        /\ varValue(StateOf(e), "$e").sig.class = "ExecError"

(***************************************************************************)
(* No panic escapes Execute.                                               *)
(***************************************************************************)
\* C2: Execute returns nil or an error; no panic goes on into its caller.
C2_NoPanicEscapes == \A e \in DOMAIN exec : exec[e].result.class # "panic"

(***************************************************************************)
(* Break and Continue.                                                     *)
(***************************************************************************)
\* C3: while a Break is in flight nothing is written and nothing is entered
\* (no node of the body, no iteration, no else list): each step leaves the
\* innermost function; the range's own exit stops the Break, and the node
\* then walked is the one after the range in the enclosing list.
C3_BreakEndsRange ==
    [][\A e \in DOMAIN exec :
         Took(e) /\ exec[e].sig = walkBreak /\ exec[e].stack # <<>> =>
             /\ SinkOf(e)' = SinkOf(e)
             /\ exec'[e].stack = Outer(exec[e])
             /\ IF Top(exec[e]).k = "range"
                THEN /\ exec'[e].sig = NoPanic
                     /\ Top(exec'[e]).k = "list"
                     /\ Top(exec'[e]).nodes[Top(exec'[e]).i - 1] = Top(exec[e]).r
                ELSE exec'[e].sig = walkBreak]_vars

\* A range with an element left was ended by Break; the text after it is next.
C3_Witness ==
    \E e \in DOMAIN exec :
        /\ exec[e].ev.op = "ExitRange"
        /\ exec[e].ev.sig = walkBreak
        /\ exec[e].sig = NoPanic
        /\ SinkOf(e).out = <<"1">>
        /\ Kind(exec[e]) = "Text"

\* C4: while a Continue is in flight nothing is written and nothing is
\* entered; the iteration's own exit stops it and removes the iteration's
\* bindings, and the loop goes on with the next element if there is one.
\* Each turn of the loop takes the next element in order.
C4_ContinueEndsIteration ==
    [][\A e \in DOMAIN exec :
         /\ Took(e) /\ exec[e].sig = walkContinue /\ exec[e].stack # <<>> =>
             /\ SinkOf(e)' = SinkOf(e)
             /\ exec'[e].stack = Outer(exec[e])
             /\ IF Top(exec[e]).k = "iter"
                THEN /\ exec'[e].sig = NoPanic
                     /\ Len(StateOf(e)'.vars) = Top(exec[e]).mark
                     /\ Top(exec'[e]).k = "range"
                     /\ Kind(exec'[e]) =
                            IF Top(exec'[e]).i <= Len(Top(exec'[e]).items)
                            THEN "RangeNext" ELSE "ExitRange"
                ELSE exec'[e].sig = walkContinue
         /\ Took(e) /\ Kind(exec[e]) = "RangeNext" =>
             LET f == Top(exec[e]) IN
             /\ exec'[e].stack[Len(exec[e].stack)].i = f.i + 1
             /\ exec'[e].sig = NoPanic =>
                    /\ Top(exec'[e]).k = "list"
                    /\ Top(exec'[e]).dot = f.items[f.i].elem]_vars

\* An iteration was ended by Continue, its binding removed, an element is left.
C4_Witness ==
    \E e \in DOMAIN exec :
        /\ exec[e].ev.op = "ExitIteration"
        /\ exec[e].ev.sig = walkContinue
        /\ exec[e].ev.vlen > Len(StateOf(e).vars)
        /\ Kind(exec[e]) = "RangeNext"

(***************************************************************************)
(* The depth ceiling.                                                      *)
(***************************************************************************)
DepthWithinCeiling == \A e \in DOMAIN exec : StateOf(e).depth <= maxExecDepth

\* Execute begins at depth 0 and a call runs its callee at depth + 1.
DepthCounts ==
    \A e \in DOMAIN exec :
        /\ Took(e) /\ Kind(exec[e]) = "Execute" => StateOf(e)'.depth = 0
        /\ Took(e) /\ Kind(exec[e]) = "Template" /\ exec'[e].sig = NoPanic =>
               StateOf(e)'.depth = StateOf(e).depth + 1

\* C5 as claimed: every template call executed at depth = ceiling fails with
\* the depth fault; depths start at 0, grow by one per call and never exceed
\* the ceiling.
C5_AnyCallAtCeiling ==
    /\ []DepthWithinCeiling
    /\ [][/\ DepthCounts
          /\ \A e \in DOMAIN exec :
                 Took(e) /\ Kind(exec[e]) = "Template"
                         /\ StateOf(e).depth = maxExecDepth =>
                     exec'[e].sig = errorf(StateOf(e), "exceeded maximum template depth")]_vars

\* C5: a call at depth = ceiling fails: with the depth fault if the named
\* template is defined, with "template not defined" if it is not (the lookup
\* comes first); depths start at 0, grow by one per call and never exceed
\* the ceiling.
C5_DepthCeiling ==
    /\ []DepthWithinCeiling
    /\ [][/\ DepthCounts
          /\ \A e \in DOMAIN exec :
                 Took(e) /\ Kind(exec[e]) = "Template"
                         /\ StateOf(e).depth = maxExecDepth =>
                     exec'[e].sig =
                        IF Lookup(Top(exec[e]).nodes[Top(exec[e]).i].name)
                        THEN errorf(StateOf(e), "exceeded maximum template depth")
                        ELSE errorf(StateOf(e), "template not defined")]_vars

\* A call of a defined template at the ceiling has just failed with the depth fault.
C5_Witness ==
    \E e \in DOMAIN exec :
        /\ exec[e].ev.op = "Template"
        /\ StateOf(e).depth = maxExecDepth
        /\ exec[e].sig = errorf(StateOf(e), "exceeded maximum template depth")


(***************************************************************************)
(* Termination.                                                            *)
(***************************************************************************)
\* C6: every execution terminates - control eventually leaves Execute, with
\* its result (or with the run-time panic errRecover raises again).
C6_Terminates == <>(\A e \in DOMAIN exec : Done(e))

\* A template that calls itself without end has returned with the depth fault.
C6_Witness ==
    \E e \in DOMAIN exec :
        /\ Done(e)
        /\ exec[e].result = [class |-> "ExecError", name |-> "main",
                             msg |-> "exceeded maximum template depth"]
        /\ SinkOf(e).out = [i \in 1..(maxExecDepth + 1) |-> "r"]

(***************************************************************************)
(* Concurrent executions.                                                  *)
(***************************************************************************)
\* What execution e can see of itself: its position and call stack, its
\* state struct (bindings, depth, template, sink), its sink.
View(c, s, K) == [c |-> c, s |-> s, k |-> K[c.wr]]

RECURSIVE OnRun(_, _)
\* view is one of the views of the run that goes on from r, a step's outcome.
OnRun(r, view) ==
    \/ View(r.c, r.s, r.K) = view
    \/ r.c.pc # "done" /\ OnRun(Step(r.c, r.s, r.K), view)

\* Execution e alone, from Execute(wr, data) on fresh sinks that fail as its does.
Alone(e) ==
    Out(Start(exec[e].data, exec[e].wr), NoState,
        [w \in DOMAIN sink |-> NewSink(sink[w].failAt)])

\* C7: under every interleaving, what each of two concurrent executions has
\* - its position, the bindings on its variable stack, its depth, the bytes
\* in its sink, its result - is what the same execution has at some point
\* when it runs alone.
C7_Private ==
    \A e \in DOMAIN exec : OnRun(Alone(e), View(exec[e], StateOf(e), sink))

\* Both executions are inside their range, each with its own loop variable bound.
C7_Witness ==
    /\ DOMAIN exec = {1, 2}
    /\ \A e \in DOMAIN exec :
           /\ exec[e].pc = "running"
           /\ varValue(StateOf(e), "$e").sig = NoPanic
           /\ SinkOf(e).out # <<>>
    /\ varValue(StateOf(1), "$e").val # varValue(StateOf(2), "$e").val

(***************************************************************************)
(* The error Execute returns.                                              *)
(***************************************************************************)
\* C8: if a Write on the sink failed with an error, Execute returns exactly
\* that error, not an ExecError; an ExecError carries the name of the
\* template of the state that raised it, and Execute returns it as it is.
C8_FaultClasses ==
    \A e \in DOMAIN exec :
        /\ Done(e) /\ SinkFailed(SinkOf(e)) =>
               exec[e].result = [class |-> "error", name |-> "", msg |-> "sink error"]
        /\ exec[e].sig.class = "ExecError" /\ exec[e].ev.sig = NoPanic =>
               exec[e].sig.name = StateOf(e).tmpl
        /\ Done(e) /\ exec[e].ev.sig.class = "ExecError" =>
               /\ exec[e].result = exec[e].ev.sig
               /\ exec[e].result.name \in DOMAIN tset.tmpls
               /\ ~SinkFailed(SinkOf(e))

\* The second Write failed: Execute returned the sink's error, the first text stays.
C8_Witness ==
    \E e \in DOMAIN exec :
        /\ Done(e)
        /\ SinkOf(e).failAt = 2
        /\ SinkOf(e).out # <<>>
        /\ exec[e].result = [class |-> "error", name |-> "", msg |-> "sink error"]

(***************************************************************************)
(* Output and faults.                                                      *)
(***************************************************************************)
\* C9: the sink only grows, by appending; the step that raises a fault and
\* the steps taken while one is in flight write nothing; a fault in flight
\* stays in flight until Execute returns.
C9_OutputKept ==
    [][\A e \in DOMAIN exec :
         Took(e) =>
             /\ IsPrefix(SinkOf(e).out, SinkOf(e)'.out)
             /\ exec[e].sig # NoPanic \/ exec'[e].sig # NoPanic =>
                    SinkOf(e)'.out = SinkOf(e).out
             /\ IsFault(exec[e].sig) =>
                    \/ exec'[e].sig = exec[e].sig /\ exec'[e].pc = "running"
                    \/ exec'[e].pc = "done" /\ SinkOf(e)'.out = SinkOf(e).out]_vars

\* A fault in the second walk of a range body: what was written before it is there.
C9_Witness ==
    \E e \in DOMAIN exec :
        /\ Done(e)
        /\ exec[e].result = [class |-> "ExecError", name |-> "main",
                             msg |-> "template not defined"]
        /\ SinkOf(e).out = <<"a", "1">>

(***************************************************************************)
(* The input document.                                                     *)
(***************************************************************************)
DataFormatError ==
    [class |-> "error", name |-> "", msg |-> "data must be a valid JSON object or array"]

\* C10: an input that is not a JSON object or array - a bare scalar, the
\* empty input, malformed JSON - is refused with the data-format error and
\* nothing is written to the sink.
C10_InputRefused ==
    \A e \in DOMAIN exec :
        Done(e) /\ exec[e].data \in ScalarInputs \cup TruncatedInputs =>
            /\ exec[e].result = DataFormatError
            /\ SinkOf(e).calls = 0

(***************************************************************************)
(* Template calls.                                                         *)
(***************************************************************************)
\* The node that the list frame on top of c walks next.
NextNode(c) == Top(c).nodes[Top(c).i]

\* The state struct that the call just entered in c returns to.
CallerOf(c) == c.stack[Len(c.stack) - 1].s

\* The callee entered by the step has the one binding $, the value of the
\* call's pipeline, runs one deeper on the named template, and resolves no
\* variable of the caller.
CalleeScope(e) ==
    LET pre  == StateOf(e)
        node == NextNode(exec[e])
        v    == EvalPipeline(pre, Top(exec[e]).dot, node.pipe).val IN
    /\ StateOf(e)'.vars = <<[name |-> "$", value |-> v]>>
    /\ StateOf(e)'.depth = pre.depth + 1
    /\ StateOf(e)'.tmpl = node.name
    /\ \A i \in DOMAIN pre.vars :
           pre.vars[i].name # "$" =>
               varValue(StateOf(e)', pre.vars[i].name).sig
                   = errorf(StateOf(e)', "undefined variable")

\* The variable stack that the declarations of pipe leave, v being its value.
AfterDecl(s, pipe, v) ==
    IF pipe.type = "nil" THEN s.vars ELSE bindDecl(s, pipe.decl, pipe.isAssign, v, 1).s.vars

\* C11 as claimed: in a called template the scope is the one binding $ of
\* the pipeline's value and no caller variable resolves; when the call
\* returns, the caller's variable stack, depth and template are what they
\* were before the call (before the Template node was walked).
C11_CallerAsBefore ==
    [][\A e \in DOMAIN exec :
         /\ Took(e) /\ Kind(exec[e]) = "Template" /\ exec'[e].sig = NoPanic =>
                /\ CalleeScope(e)
                /\ CallerOf(exec'[e]) = StateOf(e)
         /\ Took(e) /\ Kind(exec[e]) = "ReturnTemplate" =>
                StateOf(e)' = Top(exec[e]).s]_vars

\* C11: in a called template the scope is the one binding $ of the
\* pipeline's value and no caller variable resolves; when the call returns,
\* the caller's depth and template are what they were before the Template
\* node was walked, and its variable stack is that stack with what the
\* call's own pipeline declared or assigned.
C11_CalleeScope ==
    [][\A e \in DOMAIN exec :
         /\ Took(e) /\ Kind(exec[e]) = "Template" /\ exec'[e].sig = NoPanic =>
                /\ CalleeScope(e)
                /\ CallerOf(exec'[e]) =
                       [StateOf(e) EXCEPT !.vars =
                           AfterDecl(StateOf(e), NextNode(exec[e]).pipe,
                                     StateOf(e)'.vars[1].value)]
         /\ Took(e) /\ Kind(exec[e]) = "ReturnTemplate" =>
                StateOf(e)' = Top(exec[e]).s]_vars

\* A call has returned: the caller's $v resolves as before, the callee's $w does not.
C11_Witness ==
    \E e \in DOMAIN exec :
        /\ exec[e].ev.op = "ReturnTemplate"
        /\ exec[e].ev.sig = NoPanic
        /\ StateOf(e).depth = 0 /\ StateOf(e).tmpl = "main"
        /\ varValue(StateOf(e), "$v").val = StrVal(<<"x">>)
        /\ varValue(StateOf(e), "$w").sig.class = "ExecError"
        /\ SinkOf(e).out # <<>>

(***************************************************************************)
(* Range over an array.                                                    *)
(***************************************************************************)
\* The value of the pipeline of the node that execution e walks next.
PipeValue(e) == EvalPipeline(StateOf(e), Top(exec[e]).dot, NextNode(exec[e]).pipe).val

\* Execution e has returned, no Write having failed, from template root on document doc.
Ran(e, root, doc) ==
    /\ Done(e)
    /\ tset.tmpls["main"] = root
    /\ exec[e].data = Bytes(doc)
    /\ SinkOf(e).failAt = 0

\* The step enters the body of the range of frame f on item it, the loop moved on by one.
EntersBody(e, f, it) ==
    LET st == exec'[e].stack
        n  == Len(st) IN
    /\ n = Len(exec[e].stack) + 2
    /\ st[n] = ListFrame(f.r.list, it.elem)
    /\ st[n - 1].k = "iter"
    /\ st[n - 2] = [f EXCEPT !.i = f.i + 1]

\* The step of a range over an array: nothing to iterate and the else list
\* (if any) with the outer dot, or the elements with their indexes, in order.
ArrayRangeBegins(e) ==
    LET v   == PipeValue(e)
        r   == NextNode(exec[e])
        dot == Top(exec[e]).dot
        st  == exec'[e].stack
        n   == Len(st) IN
    IsArray(v) =>
        IF Len(v.kids) = 0
        THEN IF r.elseList.type = "nil"
             THEN st[n].k = "range" /\ st[n].items = <<>>
             ELSE /\ st[n] = ListFrame(r.elseList, dot)
                  /\ st[n - 1].k = "range" /\ st[n - 1].items = <<>>
        ELSE /\ st[n].k = "range" /\ st[n].i = 1
             /\ st[n].items = [i \in 1..Len(v.kids) |->
                                   [index |-> NumVal(i - 1), elem |-> v.kids[i]]]

\* C12: a range over a non-empty array walks its body once per element, in
\* index order, the dot being the element, and never its else list; over an
\* empty array it walks the body no time and the else list, if any, once
\* with the outer dot.
C12_RangeArray ==
    /\ [](\A e \in DOMAIN exec :
            /\ Ran(e, RangeDot, ArrayDoc) => SinkOf(e).out = <<"1", "2">>
            /\ Ran(e, RangeElse, BaseDoc) => SinkOf(e).out = <<"e">>)
    /\ [][\A e \in DOMAIN exec :
            /\ Took(e) /\ Kind(exec[e]) = "Range" /\ exec'[e].sig = NoPanic =>
                   ArrayRangeBegins(e)
            /\ Took(e) /\ Kind(exec[e]) = "RangeNext" /\ exec'[e].sig = NoPanic =>
                   EntersBody(e, Top(exec[e]), Top(exec[e]).items[Top(exec[e]).i])
            /\ Took(e) /\ Kind(exec[e]) = "ExitRange" /\ exec[e].sig = NoPanic =>
                   Top(exec[e]).i = Len(Top(exec[e]).items) + 1]_vars

\* The range over [1,2] has walked its body on 1 and then on 2.
C12_Witness == \E e \in DOMAIN exec : Ran(e, RangeDot, ArrayDoc) /\ SinkOf(e).out = <<"1", "2">>

(***************************************************************************)
(* Range over an object.                                                   *)
(***************************************************************************)
\* The step of a range over an object that is not {}: the entries, key and
\* value, in the order of the document.
ObjectRangeBegins(e) ==
    LET v  == PipeValue(e)
        st == exec'[e].stack
        n  == Len(st) IN
    IsObject(v) /\ v.raw # <<"{", "}">> =>
        /\ st[n].k = "range" /\ st[n].i = 1
        /\ st[n].items = [i \in 1..Len(v.kids) |->
                              [index |-> StrVal(<<v.kids[i].key>>), elem |-> v.kids[i].val]]

\* The loop variables that the range of frame f declares are the key and the value of it.
EntryBound(e, f, it) ==
    LET decl == f.r.pipe.decl IN
    ~f.r.pipe.isAssign =>
        /\ Len(decl) = 1 => varValue(StateOf(e)', decl[1]).val = it.elem
        /\ Len(decl) = 2 => /\ varValue(StateOf(e)', decl[1]).val = it.index
                            /\ varValue(StateOf(e)', decl[2]).val = it.elem

\* C13: a range over an object visits the key/value pairs in the order of
\* the document, the key bound as index, the value as element and as dot.
C13_RangeObject ==
    /\ [](\A e \in DOMAIN exec :
            Ran(e, RangeObject, OrderDoc) => SinkOf(e).out = <<"b", "1", "a", "2">>)
    /\ [][\A e \in DOMAIN exec :
            /\ Took(e) /\ Kind(exec[e]) = "Range" /\ exec'[e].sig = NoPanic =>
                   ObjectRangeBegins(e)
            /\ Took(e) /\ Kind(exec[e]) = "RangeNext" /\ exec'[e].sig = NoPanic
                       /\ Top(exec[e]).items[Top(exec[e]).i].index.type = "String" =>
                   /\ EntersBody(e, Top(exec[e]), Top(exec[e]).items[Top(exec[e]).i])
                   /\ EntryBound(e, Top(exec[e]), Top(exec[e]).items[Top(exec[e]).i])]_vars

\* The range over {"b":1,"a":2} has visited b before a.
C13_Witness ==
    \E e \in DOMAIN exec :
        Ran(e, RangeObject, OrderDoc) /\ SinkOf(e).out = <<"b", "1", "a", "2">>

(***************************************************************************)
(* Pipelines.                                                              *)
(***************************************************************************)
\* A pipeline of two commands whose second is a function call:  A | f x
IsPiped(pipe) ==
    /\ pipe.type = "Pipe"
    /\ Len(pipe.cmds) = 2
    /\ pipe.cmds[2].args[1].type = "Identifier"

\* f x (A)  for the pipeline  A | f x
AsLastArgument(pipe) ==
    [pipe EXCEPT !.cmds = <<CommandNode(pipe.cmds[2].args
                                        \o <<PipeNode(<<>>, FALSE, <<pipe.cmds[1]>>)>>)>>]

\* C14: in a pipeline a command after the first gets the previous command's
\* result as its last argument:  A | f x  yields what  f x (A)  yields, for
\* the registered functions and for the builtins.
C14_PipedArgument ==
    \A e \in DOMAIN exec :
        Kind(exec[e]) = "Action" /\ IsPiped(NextNode(exec[e]).pipe) =>
            LET piped  == EvalPipeline(StateOf(e), Top(exec[e]).dot, NextNode(exec[e]).pipe)
                direct == EvalPipeline(StateOf(e), Top(exec[e]).dot,
                                       AsLastArgument(NextNode(exec[e]).pipe)) IN
            piped.val = direct.val /\ piped.sig = direct.sig

(***************************************************************************)
(* Truthiness.                                                             *)
(***************************************************************************)
\* The truth table: absent, Null and False are false, True is true, a Number
\* unless it is 0, a String unless it is empty, an Array or Object unless its
\* raw text is "", [] or {}.
Truthy(v) ==
    CASE ~Exists(v)         -> FALSE
      [] v.type = "Null"    -> FALSE
      [] v.type = "False"   -> FALSE
      [] v.type = "True"    -> TRUE
      [] v.type = "Number"  -> v.num # 0
      [] v.type = "String"  -> v.str # <<>>
      [] v.type = "JSON"    -> v.raw \notin {<<>>, <<"[", "]">>, <<"{", "}">>}

\* What template Truth writes for .V = v if v is true, and if it is false.
TruthOutput(v) ==
    IF Truthy(v) THEN <<"t", "t", "false", "1">> \o printableValue(v)
    ELSE <<"f", "f", "true">> \o printableValue(v) \o <<"0">>

\* C15: if, with, not, and, or take for false an absent value, Null, False,
\* the Number 0, the empty String and an Array or Object whose raw text is
\* "", [] or {}; every other value is true, [ ] and { } included.
C15_Truthiness ==
    \A e \in DOMAIN exec : \A v \in TruthValues :
        Ran(e, Truth, TruthDoc(v)) =>
            /\ exec[e].result.class = "nil"
            /\ SinkOf(e).out = TruthOutput(v)

\* The empty array written [ ] has been taken for true.
C15_Witness ==
    \E e \in DOMAIN exec :
        /\ Ran(e, Truth, TruthDoc(ArrRaw(<<"[", " ", "]">>, <<>>)))
        /\ SinkOf(e).out = <<"t", "t", "false", "1", "[", " ", "]">>

(***************************************************************************)
(* and, or.                                                                *)
(***************************************************************************)
\* C16: and yields the value of its first false argument, or of its last; or
\* the value of its first true argument, or of its last; an argument after
\* the deciding one is not evaluated, so .Missing there raises no fault under
\* the policy that faults on a missing key, while it does when it is reached.
C16_ShortCircuit ==
    \A e \in DOMAIN exec :
        /\ Ran(e, ShortCut, BaseDoc) =>
               /\ exec[e].result.class = "nil"
               /\ SinkOf(e).out = <<"null", "x", "2", "[", "]">>
        /\ \A root \in {AndThrough, OrThrough} :
               Ran(e, root, BaseDoc) =>
                   /\ exec[e].result = errorf(StateOf(e), "path not found in data")
                   /\ SinkOf(e).out = <<>>

\* and / or have returned the deciding values with .Missing never evaluated.
C16_Witness ==
    \E e \in DOMAIN exec :
        /\ Ran(e, ShortCut, BaseDoc)
        /\ tset.missingKey = "mapError"
        /\ SinkOf(e).out = <<"null", "x", "2", "[", "]">>

(***************************************************************************)
(* eq, ne.                                                                 *)
(***************************************************************************)
\* C17: eq compares two Numbers by their values (42 and 42.0 are equal) and
\* a Number with a String, in either order, by the number the string parses
\* to, false if it does not parse; ne compares the raw texts and nothing
\* else, so eq and ne are both true of the Number 42 and the String "42".
C17_EqNe ==
    \A e \in DOMAIN exec :
        Ran(e, Compare, CompareDoc) =>
            /\ exec[e].result.class = "nil"
            /\ SinkOf(e).out = <<"true", "true", "true", "false", "false", "true",
                                 "true", "true", "true", "false", "false">>

\* eq and ne have both been computed on the Number 42 and the String "42".
C17_Witness ==
    \E e \in DOMAIN exec :
        /\ Ran(e, Compare, CompareDoc)
        /\ Len(SinkOf(e).out) = 11
        /\ SinkOf(e).out[2] = "true"
        /\ SinkOf(e).out[7] = "true"

(***************************************************************************)
(* The missing-key policy.                                                 *)
(***************************************************************************)
PathNotFound(result) ==
    /\ result.class = "ExecError"
    /\ result.msg \in {"path not found in data", "gjson path not found in data"}

\* C18: every access of a path that is not in the data - a field chain on
\* dot, on a variable or on a parenthesized pipeline, a back-quoted path, the
\* gjson function, index on an object - aborts with path-not-found when the
\* policy is to fault, and under the two other policies does not abort and
\* prints as the empty string.
C18_MissingKeyPolicy ==
    \A e \in DOMAIN exec : \A access \in MissingAccesses :
        Ran(e, Missing(access), BaseDoc) =>
            IF tset.missingKey = "mapError"
            THEN PathNotFound(exec[e].result) /\ SinkOf(e).out = <<"a">>
            ELSE exec[e].result.class = "nil" /\ SinkOf(e).out = <<"a", "b">>

(***************************************************************************)
(* Declarations and assignments.                                           *)
(***************************************************************************)
\* The step of an Action that declares or assigns one variable: no Write;
\* a declaration appends the binding; an assignment changes the value of the
\* last binding of that name and nothing else, and faults if there is none.
DeclaresOrAssigns(e) ==
    LET pre   == StateOf(e)
        pipe  == NextNode(exec[e]).pipe
        name  == pipe.decl[1]
        v     == PipeValue(e)
        named == {i \in 1..Len(pre.vars) : pre.vars[i].name = name}
        post  == StateOf(e)'.vars IN
    /\ SinkOf(e)' = SinkOf(e)
    /\ ~pipe.isAssign /\ exec'[e].sig = NoPanic =>
           post = pre.vars \o <<[name |-> name, value |-> v]>>
    /\ pipe.isAssign /\ exec'[e].sig = NoPanic =>
           /\ named # {}
           /\ post = [pre.vars EXCEPT
                         ![CHOOSE i \in named : \A j \in named : j <= i].value = v]
    /\ pipe.isAssign /\ named = {} =>
           /\ exec'[e].sig.class = "ExecError"
           /\ post = pre.vars

\* C19: an Action that declares or assigns writes nothing; a declaration
\* pushes a binding; an assignment overwrites the innermost binding of the
\* name and fails with undefined variable if there is none; an assignment in
\* a block to a variable of outside persists after the block, and a binding
\* shadowed by a declaration in the block keeps its value.
C19_Variables ==
    /\ [](\A e \in DOMAIN exec :
             /\ Ran(e, Variables, BaseDoc) =>
                    exec[e].result.class = "nil" /\ SinkOf(e).out = <<"4", "1", "6">>
             /\ Ran(e, AssignUndefined, BaseDoc) =>
                    /\ exec[e].result = errorf(StateOf(e), "undefined variable")
                    /\ SinkOf(e).out = <<"a">>)
    /\ [][\A e \in DOMAIN exec :
             Took(e) /\ Kind(exec[e]) = "Action"
                     /\ Len(NextNode(exec[e]).pipe.decl) = 1 => DeclaresOrAssigns(e)]_vars

\* The block has assigned $z of outside and shadowed $x, and is over.
C19_Witness ==
    \E e \in DOMAIN exec :
        /\ Ran(e, Variables, BaseDoc)
        /\ SinkOf(e).out = <<"4", "1", "6">>

(***************************************************************************)
(* Faults in a range body.                                                 *)
(***************************************************************************)
\* The error Execute returns for a fault that reaches it.
ReturnedFor(sig) ==
    IF sig.class = "writeError" THEN [class |-> "error", name |-> "", msg |-> sig.msg] ELSE sig

\* Some range, or one of its iterations, is being executed.
InRange(c) == \E i \in DOMAIN c.stack : c.stack[i].k \in {"range", "iter"}

\* C20: an execution fault or a write fault in flight is stopped by no
\* iteration and no range: each step leaves the innermost function with the
\* same fault and without a Write, so no later iteration runs, and Execute
\* returns that fault; a fault in the inner of two ranges ends both.
C20_FaultLeavesRange ==
    /\ [](\A e \in DOMAIN exec :
             Done(e) /\ tset.tmpls["main"] = NestedFault =>
                 IF SinkOf(e).failAt = 1
                 THEN /\ exec[e].result = ReturnedFor(writeError("sink error"))
                      /\ SinkOf(e).out = <<>>
                 ELSE /\ exec[e].result = errorf(StateOf(e), "template not defined")
                      /\ SinkOf(e).out = <<"1">>)
    /\ [][\A e \in DOMAIN exec :
             Took(e) /\ exec[e].sig.class \in {"ExecError", "writeError"} =>
                 /\ SinkOf(e)' = SinkOf(e)
                 /\ IF exec[e].stack # <<>>
                    THEN /\ exec'[e].sig = exec[e].sig
                         /\ exec'[e].stack = Outer(exec[e])
                    ELSE /\ exec'[e].pc = "done"
                         /\ exec'[e].result = ReturnedFor(exec[e].sig)]_vars

\* A fault raised in the inner of two ranges is passing the outer one.
C20_Witness ==
    \E e \in DOMAIN exec :
        /\ tset.tmpls["main"] = NestedFault
        /\ exec[e].sig.class \in {"ExecError", "writeError"}
        /\ exec[e].ev.op = "ExitRange"
        /\ InRange(exec[e])

(***************************************************************************)
(* Range over an object without entries.                                   *)
(***************************************************************************)
\* The objects without entries of the documents: {} and { }.
EmptyObjects == {v \in TruthValues : IsObject(v) /\ Len(v.kids) = 0}

\* C21: a range over an object without entries, however the object is
\* written, walks its body no time and its else list once, with the dot of
\* outside: a{{range .V}}x{{else}}e{{end}}b writes a, e, b.
C21_EmptyObject ==
    \A e \in DOMAIN exec : \A v \in EmptyObjects :
        Ran(e, RangeV, TruthDoc(v)) =>
            /\ exec[e].result.class = "nil"
            /\ SinkOf(e).out = <<"a", "e", "b">>

(***************************************************************************)
(* Range over what cannot be iterated.                                     *)
(***************************************************************************)
\* The values of the documents that are no array, object, number or string:
\* null, true, false and the value of a path that is not there.
NotIterable ==
    {v \in TruthValues : ~(IsArray(v) \/ IsObject(v) \/ v.type \in {"Number", "String"})}

\* C22: a range over Null, True, False or an absent value fails with "range
\* can't iterate over" and walks neither its body nor its else list:
\* a{{range .V}}x{{else}}e{{end}}b writes a and returns the fault.
C22_NotIterable ==
    /\ NotIterable = {Absent, NullVal, BoolVal(TRUE), BoolVal(FALSE)}
    /\ \A e \in DOMAIN exec : \A v \in NotIterable :
           Ran(e, RangeV, TruthDoc(v)) =>
               /\ exec[e].result = errorf(StateOf(e), "range can't iterate over")
               /\ SinkOf(e).out = <<"a">>

\* The range over the absent value has failed, a written and nothing else.
C22_Witness ==
    \E e \in DOMAIN exec :
        /\ Ran(e, RangeV, TruthDoc(Absent))
        /\ exec[e].result.msg = "range can't iterate over"
        /\ SinkOf(e).out = <<"a">>

(***************************************************************************)
(* Arguments to what is no function.                                       *)
(***************************************************************************)
NotAFunctionFault(result) ==
    /\ result.class = "ExecError"
    /\ result.msg \in {"can't give argument to non-function",
                        "is not a method but has arguments",
                        "gjson path is not a method but has arguments"}

\* C23: a field chain, a variable, a variable with fields, a back-quoted path
\* or a parenthesized pipeline that is given an argument, or the value of the
\* command before it in the pipeline - one that exists or an absent one -
\* fails with the not-a-function fault.
C23_NoArguments ==
    \A e \in DOMAIN exec : \A access \in Accesses :
        \A root \in {WithArgument(access)}
                     \cup {PipedInto(field, access) : field \in PipedFields} :
            Ran(e, root, BaseDoc) =>
                /\ NotAFunctionFault(exec[e].result)
                /\ SinkOf(e).out = <<"a">>

(***************************************************************************)
(* The order of the steps of a template call.                              *)
(***************************************************************************)
\* The outcome of the pipeline of the call that execution e is about to make.
CallPipeline(e) ==
    EvalPipeline(StateOf(e), Top(exec[e]).dot, NextNode(exec[e]).pipe)

UndefinedTemplate(e) == errorf(StateOf(e), "template not defined")

DepthExceeded(e) == errorf(StateOf(e), "exceeded maximum template depth")

\* C24 as claimed: a template call evaluates its pipeline, then looks the
\* name up, then checks the depth: a fault of the pipeline is the one
\* reported even if the name is not defined or the ceiling is reached, and a
\* name that is not defined is reported before a reached ceiling.
C24_PipelineFirst ==
    [][\A e \in DOMAIN exec :
         Took(e) /\ Kind(exec[e]) = "Template" =>
             exec'[e].sig =
                 IF Faulted(CallPipeline(e)) THEN CallPipeline(e).sig
                 ELSE IF ~Lookup(NextNode(exec[e]).name) THEN UndefinedTemplate(e)
                 ELSE IF StateOf(e).depth = maxExecDepth THEN DepthExceeded(e)
                 ELSE NoPanic]_vars

\* C24: a template call looks the name up, then checks the depth, then
\* evaluates its pipeline: a name that is not defined is reported before a
\* reached ceiling, and either before a fault of the pipeline, which is
\* reported only if the name is defined and the ceiling is not reached.
C24_LookupFirst ==
    [][\A e \in DOMAIN exec :
         Took(e) /\ Kind(exec[e]) = "Template" =>
             exec'[e].sig =
                 IF ~Lookup(NextNode(exec[e]).name) THEN UndefinedTemplate(e)
                 ELSE IF StateOf(e).depth = maxExecDepth THEN DepthExceeded(e)
                 ELSE CallPipeline(e).sig]_vars

\* A call at the ceiling whose pipeline would fault has failed with the depth fault.
C24_Witness ==
    \E e \in DOMAIN exec :
        /\ tset.tmpls["main"] = DescendFault
        /\ exec[e].ev.op = "Template"
        /\ StateOf(e).depth = maxExecDepth
        /\ exec[e].sig = DepthExceeded(e)

(***************************************************************************)
(* The loop variables of a range that declares them.                       *)
(***************************************************************************)
\* The turn of a declaring range on item it: the stack is as long as the mark
\* taken after the pipeline before and after the bindings, and only the slots
\* of the loop variables change, the top one to the element and the one
\* below it (if two are declared) to the index.
Rebinds(e, f, it) ==
    LET pre  == StateOf(e).vars
        post == StateOf(e)'.vars
        n    == Len(f.r.pipe.decl) IN
    /\ Len(pre) = f.mark
    /\ Len(post) = f.mark
    /\ post[f.mark].value = it.elem
    /\ n = 2 => post[f.mark - 1].value = it.index
    /\ \A i \in 1..(f.mark - n) : post[i] = pre[i]
    /\ \A i \in 1..f.mark : post[i].name = pre[i].name
    /\ \A i \in 1..n : post[f.mark - n + i].name = f.r.pipe.decl[i]

\* C25: a range that declares its variables binds them anew at every
\* iteration in the slots pushed before the loop: every iteration starts with
\* the stack as long as the mark taken after the pipeline, whatever the body
\* of the one before declared; one declared variable resolves to the element,
\* of two the first to the index or key and the second to the element.
C25_LoopVariables ==
    /\ [](\A e \in DOMAIN exec :
             Ran(e, RangeDeclare, AltDoc) =>
                 /\ exec[e].result.class = "nil"
                 /\ SinkOf(e).out = <<"0", "3", "1", "1", "y">>)
    /\ [][\A e \in DOMAIN exec :
             Took(e) /\ Kind(exec[e]) = "RangeNext" /\ exec'[e].sig = NoPanic
                     /\ Len(Top(exec[e]).r.pipe.decl) > 0
                     /\ ~Top(exec[e]).r.pipe.isAssign =>
                 /\ Rebinds(e, Top(exec[e]), Top(exec[e]).items[Top(exec[e]).i])
                 /\ EntryBound(e, Top(exec[e]), Top(exec[e]).items[Top(exec[e]).i])]_vars

\* The second iteration of a range of two variables has begun, the body of
\* the first having declared a variable of its own.
C25_Witness ==
    \E e \in DOMAIN exec :
        /\ tset.tmpls["main"] = RangeDeclare
        /\ exec[e].ev.op = "RangeNext"
        /\ SinkOf(e).out = <<"0", "3">>
        /\ exec[e].sig = NoPanic
        /\ varValue(StateOf(e), "$i").val = NumVal(1)
        /\ varValue(StateOf(e), "$e").val = NumVal(1)
        /\ Len(StateOf(e).vars) = 3

(***************************************************************************)
(* The loop variables of a range that assigns them.                        *)
(***************************************************************************)
\* An assigning range has evaluated its expression: each named variable has its value.
AssignsValue(e) ==
    LET r == NextNode(exec[e]) IN
    /\ Len(StateOf(e)'.vars) = Len(StateOf(e).vars)
    /\ \A i \in 1..Len(r.pipe.decl) :
           varValue(StateOf(e)', r.pipe.decl[i]).val = PipeValue(e)

\* The turn of an assigning range on item it: one name has the element, of two
\* the first has the index and the second the element; no binding is added.
AssignsItem(e, f, it) ==
    LET decl == f.r.pipe.decl IN
    /\ Len(StateOf(e)'.vars) = Len(StateOf(e).vars)
    /\ Len(decl) = 1 => varValue(StateOf(e)', decl[1]).val = it.elem
    /\ Len(decl) = 2 => /\ varValue(StateOf(e)', decl[1]).val = it.index
                        /\ varValue(StateOf(e)', decl[2]).val = it.elem

\* The range of frame f is left: the variables it names have the values they had.
KeepsAssigned(e, f) ==
    \A i \in 1..Len(f.r.pipe.decl) :
        varValue(StateOf(e)', f.r.pipe.decl[i]) = varValue(StateOf(e), f.r.pipe.decl[i])

\* C26: a range that assigns writes into variables of outside: each is set
\* to the value of the range expression before the loop, one name to the
\* element and of two the first to the index and the second to the element
\* at every iteration; after the range they have the values of the last
\* iteration started, or the value of the expression if there was none.
C26_AssignedLoopVariables ==
    /\ [](\A e \in DOMAIN exec :
             Ran(e, RangeAssign, AssignDoc) =>
                 /\ exec[e].result.class = "nil"
                 /\ SinkOf(e).out = <<"0", "3", "1", "1", "1", "1", "3", "[", "]">>)
    /\ [][\A e \in DOMAIN exec :
             /\ Took(e) /\ Kind(exec[e]) = "Range" /\ exec'[e].sig = NoPanic
                        /\ NextNode(exec[e]).pipe.isAssign => AssignsValue(e)
             /\ Took(e) /\ Kind(exec[e]) = "RangeNext" /\ exec'[e].sig = NoPanic
                        /\ Top(exec[e]).r.pipe.isAssign =>
                    AssignsItem(e, Top(exec[e]), Top(exec[e]).items[Top(exec[e]).i])
             /\ Took(e) /\ Kind(exec[e]) \in {"ExitIteration", "ExitRange"} =>
                    LET f == IF Top(exec[e]).k = "range" THEN Top(exec[e])
                             ELSE exec[e].stack[Len(exec[e].stack) - 1] IN
                    f.r.pipe.isAssign => KeepsAssigned(e, f)]_vars

\* After the assigning ranges: $i and $x of outside have the last index and
\* element, then $x the element of the iteration that broke, then [].
C26_Witness ==
    \E e \in DOMAIN exec :
        /\ Ran(e, RangeAssign, AssignDoc)
        /\ SinkOf(e).out = <<"0", "3", "1", "1", "1", "1", "3", "[", "]">>

(***************************************************************************)
(* Range over a Number.                                                    *)
(***************************************************************************)
RECURSIVE CountOutput(_, _)
\* What the body {{$n}}{{.}} writes in the iterations i .. n - 1.
CountOutput(i, n) == IF i >= n THEN <<>> ELSE <<Itoa(i), Itoa(i)>> \o CountOutput(i + 1, n)

\* The step of a range over a Number N of at most one variable: the else
\* list (if any) and no item if N <= 0, and the items 0 .. N-1, each its own
\* index and element, otherwise.
NumberRangeBegins(e) ==
    LET v   == PipeValue(e)
        r   == NextNode(exec[e])
        dot == Top(exec[e]).dot
        st  == exec'[e].stack
        n   == Len(st) IN
    v.type = "Number" =>
        IF Len(r.pipe.decl) > 1
        THEN /\ exec'[e].sig =
                    errorf(StateOf(e), "can't use to iterate over more than one variable")
             /\ Top(exec'[e]).k = "range" /\ Top(exec'[e]).items = <<>>
        ELSE /\ exec'[e].sig = NoPanic
             /\ IF v.num <= 0
                THEN IF r.elseList.type # "nil"
                     THEN /\ st[n] = ListFrame(r.elseList, dot)
                          /\ st[n - 1].k = "range" /\ st[n - 1].items = <<>>
                     ELSE st[n].k = "range" /\ st[n].items = <<>>
                ELSE /\ st[n].k = "range" /\ st[n].i = 1
                     /\ st[n].items =
                            [i \in 1..v.num |-> [index |-> NumVal(i - 1), elem |-> NumVal(i - 1)]]

\* C27: a range over a Number N that declares two variables fails; of at
\* most one variable, it walks the else list and no iteration if N <= 0, and
\* the body N times otherwise, for i = 0 .. N-1 in order, with dot, index
\* and element the integer i.
C27_RangeNumber ==
    /\ [](\A e \in DOMAIN exec : \A v \in Counts :
             /\ Ran(e, RangeCount, TruthDoc(v)) =>
                    /\ exec[e].result.class = "nil"
                    /\ SinkOf(e).out =
                           IF v.num <= 0 THEN <<"a", "e", "b">>
                           ELSE <<"a">> \o CountOutput(0, v.num) \o <<"b">>
             /\ Ran(e, RangeCountTwo, TruthDoc(v)) =>
                    /\ exec[e].result.class = "ExecError"
                    /\ SinkOf(e).out = <<"a">>)
    /\ [][\A e \in DOMAIN exec :
             /\ Took(e) /\ Kind(exec[e]) = "Range" /\ ~Faulted(CallPipeline(e)) =>
                    NumberRangeBegins(e)
             /\ Took(e) /\ Kind(exec[e]) = "RangeNext" /\ exec'[e].sig = NoPanic
                        /\ tset.tmpls["main"] = RangeCount =>
                    /\ EntersBody(e, Top(exec[e]), Top(exec[e]).items[Top(exec[e]).i])
                    /\ EntryBound(e, Top(exec[e]), Top(exec[e]).items[Top(exec[e]).i])]_vars

\* The range over 3 has walked its body for 0, 1 and 2.
C27_Witness ==
    \E e \in DOMAIN exec :
        /\ Ran(e, RangeCount, TruthDoc(NumVal(3)))
        /\ SinkOf(e).out = <<"a", "0", "0", "1", "1", "2", "2", "b">>

(***************************************************************************)
(* if and with.                                                            *)
(***************************************************************************)
\* The step of an if or a with whose pipeline has the value v: the pipeline
\* has been evaluated once, and one list is entered - the body, with the dot
\* of outside for if and v for with, if v is true; the else list with the dot
\* of outside if v is false - or none if v is false and there is no else list.
ChoosesList(e) ==
    LET v    == PipeValue(e)
        node == NextNode(exec[e])
        dot  == Top(exec[e]).dot
        st   == exec'[e].stack
        n    == Len(st)
        m    == Len(exec[e].stack) IN
    /\ StateOf(e)'.vars = AfterDecl(StateOf(e), node.pipe, v)
    /\ SinkOf(e)' = SinkOf(e)
    /\ IF Truthy(v)
       THEN /\ n = m + 2
            /\ st[n] = ListFrame(node.list, IF node.type = "With" THEN v ELSE dot)
            /\ st[n - 1] = IfWithFrame(Len(StateOf(e).vars))
       ELSE IF node.elseList.type # "nil"
       THEN /\ n = m + 2
            /\ st[n] = ListFrame(node.elseList, dot)
            /\ st[n - 1] = IfWithFrame(Len(StateOf(e).vars))
       ELSE /\ n = m + 1
            /\ st[n] = IfWithFrame(Len(StateOf(e).vars))

\* C28: if and with evaluate their pipeline once; a true value walks the
\* body, with the dot of outside for if and with the value as dot for with;
\* a false one walks the else list with the dot of outside, or nothing if
\* there is none; one list at most is walked.
C28_IfWith ==
    /\ [](\A e \in DOMAIN exec :
             /\ Ran(e, IfWith, IfWithDoc(NumVal(1))) =>
                    SinkOf(e).out = <<"7", "1", "t", "1", "z">>
             /\ Ran(e, IfWith, IfWithDoc(NumVal(0))) =>
                    SinkOf(e).out = <<"f", "7", "z">>)
    /\ [][\A e \in DOMAIN exec :
             Took(e) /\ Kind(exec[e]) \in {"If", "With"} /\ exec'[e].sig = NoPanic =>
                 ChoosesList(e)]_vars

\* A with has entered its body on the value of its pipeline, which is not the dot of outside.
C28_Witness ==
    \E e \in DOMAIN exec :
        /\ exec[e].ev.op = "With"
        /\ exec[e].sig = NoPanic
        /\ tset.tmpls["main"] = IfWith
        /\ Top(exec[e]).k = "list"
        /\ Top(exec[e]).dot = NumVal(1)
        /\ Top(exec[e]).nodes = <<Show(DotNode)>>

(***************************************************************************)
(* Break and Continue in an else list.                                     *)
(***************************************************************************)
\* C29: a Break in the else list of a range that is in the body of another
\* range ends the outer range - on [1,2] the outer body writes 1 and the
\* text after the range follows - as a Continue there ends the iteration of
\* the outer range, which goes on with 2.
C29_BreakInElse ==
    \A e \in DOMAIN exec :
        /\ Ran(e, InElse(BreakNode), BaseDoc) =>
               exec[e].result.class = "nil" /\ SinkOf(e).out = <<"1", "z">>
        /\ Ran(e, InElse(ContinueNode), BaseDoc) =>
               exec[e].result.class = "nil" /\ SinkOf(e).out = <<"1", "2", "z">>

(***************************************************************************)
(* The bottom of the variable stack.                                       *)
(***************************************************************************)
\* A state struct's variable stack is not empty and begins with $.
HasRoot(s) == Len(s.vars) >= 1 /\ s.vars[1].name = "$"

\* C30: the variable stack of every state struct - the current one of an
\* execution that has built one, and every caller's a call is to return to -
\* has at least one binding, the bottom one named $; and every pop is given
\* a mark between 1 and the length of the stack and leaves the bindings up
\* to the mark as they were, so none removed before comes back.
C30_RootBinding ==
    /\ [](\A e \in DOMAIN exec :
             /\ exec[e].pc = "running" => HasRoot(StateOf(e))
             /\ \A i \in DOMAIN exec[e].stack :
                    exec[e].stack[i].k = "call" => HasRoot(exec[e].stack[i].s))
    /\ [][\A e \in DOMAIN exec :
             Took(e) /\ Kind(exec[e]) \in {"ExitIfWith", "ExitIteration", "ExitRange"} =>
                 LET m == EntryMark(Top(exec[e])) IN
                 /\ 1 <= m /\ m <= Len(StateOf(e).vars)
                 /\ StateOf(e)'.vars = SubSeq(StateOf(e).vars, 1, m)]_vars

\* An if that declared a variable has been left: the stack is back to $ alone.
C30_Witness ==
    \E e \in DOMAIN exec :
        /\ exec[e].ev.op = "ExitIfWith"
        /\ exec[e].ev.vlen = 2
        /\ Len(StateOf(e).vars) = 1
        /\ StateOf(e).vars[1].name = "$"

=============================================================================
